---- MODULE Spec2Model ----
(***************************************************************************)
(* Model of the instruction encoder of src/ir/instr.cpp.                   *)
(*                                                                         *)
(* Every symbolic expression the encoder builds is evaluated here under a  *)
(* concrete valuation of its free variables: an operand is a concrete      *)
(* StateValue (value, non_poison), and a condition handed to addUB/addPre  *)
(* is recorded together with the truth value it has under that valuation.  *)
(* The State accumulators (ub, pre, qvars) hold what the most recently     *)
(* encoded instruction appended to them.                                   *)
(***************************************************************************)
EXTENDS Integers, Sequences, FiniteSets, TLC

VARIABLES instr, result, ub, pre, qvars, env, data, approx

vars == <<instr, result, ub, pre, qvars, env, data, approx>>

(***************************************************************************)
(* Bounds of the model.                                                    *)
(***************************************************************************)
\* bit width of the scalar integer type the binary operations are encoded at
BITS == 3
\* bit width of one lane of the vector types
VBITS == 2
\* largest number of lanes of a vector operand
MaxLanes == 2

(***************************************************************************)
(* Bit-vector algebra (smt::expr), on naturals below 2^w.                  *)
(***************************************************************************)
RECURSIVE Pow2(_)
Pow2(n) == IF n <= 0 THEN 1 ELSE 2 * Pow2(n - 1)

mkUInt(n, w) == n % Pow2(w)
mkInt(n, w) == n % Pow2(w)
IntSMin(w) == Pow2(w - 1)
IntSMax(w) == Pow2(w - 1) - 1
IntUMax(w) == Pow2(w) - 1
\* the signed reading of a bit-vector
toSInt(x, w) == IF x >= Pow2(w - 1) THEN x - Pow2(w) ELSE x
isNegative(x, w) == x >= Pow2(w - 1)
AbsInt(i) == IF i < 0 THEN -i ELSE i
\* division truncating toward zero
TruncDiv(x, y) ==
  IF (x < 0) = (y < 0) THEN AbsInt(x) \div AbsInt(y)
  ELSE -(AbsInt(x) \div AbsInt(y))

bvadd(a, b, w) == (a + b) % Pow2(w)
bvsub(a, b, w) == (a - b) % Pow2(w)
bvmul(a, b, w) == (a * b) % Pow2(w)
udiv(a, b, w) == IF b = 0 THEN IntUMax(w) ELSE a \div b
urem(a, b, w) == IF b = 0 THEN a ELSE a % b
sdiv(a, b, w) ==
  IF b = 0 THEN (IF isNegative(a, w) THEN 1 ELSE IntUMax(w))
  ELSE mkInt(TruncDiv(toSInt(a, w), toSInt(b, w)), w)
srem(a, b, w) ==
  IF b = 0 THEN a
  ELSE mkInt(toSInt(a, w) - TruncDiv(toSInt(a, w), toSInt(b, w)) * toSInt(b, w), w)
shl(a, b, w) == IF b >= w THEN 0 ELSE (a * Pow2(b)) % Pow2(w)
lshr(a, b, w) == IF b >= w THEN 0 ELSE a \div Pow2(b)
ashr(a, b, w) ==
  IF b >= w THEN (IF isNegative(a, w) THEN IntUMax(w) ELSE 0)
  ELSE mkInt(toSInt(a, w) \div Pow2(b), w)
ult(a, b) == a < b
uge(a, b) == a >= b

add_no_soverflow(a, b, w) ==
  LET r == toSInt(a, w) + toSInt(b, w) IN r >= -Pow2(w - 1) /\ r < Pow2(w - 1)
add_no_uoverflow(a, b, w) == a + b < Pow2(w)
sub_no_soverflow(a, b, w) ==
  LET r == toSInt(a, w) - toSInt(b, w) IN r >= -Pow2(w - 1) /\ r < Pow2(w - 1)
sub_no_uoverflow(a, b, w) == a >= b
mul_no_soverflow(a, b, w) ==
  LET r == toSInt(a, w) * toSInt(b, w) IN r >= -Pow2(w - 1) /\ r < Pow2(w - 1)
mul_no_uoverflow(a, b, w) == a * b < Pow2(w)
shl_no_soverflow(a, b, w) == ashr(shl(a, b, w), b, w) = a
shl_no_uoverflow(a, b, w) == lshr(shl(a, b, w), b, w) = a
sdiv_exact(a, b, w) == bvmul(sdiv(a, b, w), b, w) = a
udiv_exact(a, b, w) == bvmul(udiv(a, b, w), b, w) = a
ashr_exact(a, b, w) == shl(ashr(a, b, w), b, w) = a
lshr_exact(a, b, w) == shl(lshr(a, b, w), b, w) = a

sadd_sat(a, b, w) ==
  IF add_no_soverflow(a, b, w) THEN bvadd(a, b, w)
  ELSE IF isNegative(a, w) THEN IntSMin(w) ELSE IntSMax(w)
uadd_sat(a, b, w) == IF add_no_uoverflow(a, b, w) THEN a + b ELSE IntUMax(w)
ssub_sat(a, b, w) ==
  IF sub_no_soverflow(a, b, w) THEN bvsub(a, b, w)
  ELSE IF isNegative(a, w) THEN IntSMin(w) ELSE IntSMax(w)
usub_sat(a, b, w) == IF sub_no_uoverflow(a, b, w) THEN a - b ELSE 0
sshl_sat(a, b, w) ==
  IF shl_no_soverflow(a, b, w) THEN shl(a, b, w)
  ELSE IF isNegative(a, w) THEN IntSMin(w) ELSE IntSMax(w)
ushl_sat(a, b, w) == IF shl_no_uoverflow(a, b, w) THEN shl(a, b, w) ELSE IntUMax(w)

RECURSIVE bitwise(_, _, _, _)
\* f is the truth table of the bit operation, indexed by the two bits
bitwise(f, a, b, w) ==
  IF w = 0 THEN 0
  ELSE 2 * bitwise(f, a \div 2, b \div 2, w - 1) + f[(a % 2) + 1][(b % 2) + 1]
bvand(a, b, w) == bitwise(<<<<0, 0>>, <<0, 1>>>>, a, b, w)
bvor(a, b, w) == bitwise(<<<<0, 1>>, <<1, 1>>>>, a, b, w)
bvxor(a, b, w) == bitwise(<<<<0, 1>>, <<1, 0>>>>, a, b, w)

RECURSIVE cttz(_, _, _)
\* number of trailing zero bits; val_zero when a = 0
cttz(a, val_zero, w) ==
  IF a = 0 THEN val_zero
  ELSE IF a % 2 = 1 THEN 0 ELSE 1 + cttz(a \div 2, val_zero, w)
RECURSIVE ctlz(_, _)
\* number of leading zero bits; w when a = 0
ctlz(a, w) ==
  IF w = 0 THEN 0
  ELSE IF a >= Pow2(w - 1) THEN 0 ELSE 1 + ctlz(a, w - 1)
umin(a, b) == IF a <= b THEN a ELSE b
umax(a, b) == IF a >= b THEN a ELSE b
smin(a, b, w) == IF toSInt(a, w) <= toSInt(b, w) THEN a ELSE b
smax(a, b, w) == IF toSInt(a, w) >= toSInt(b, w) THEN a ELSE b
bvabs(a, w) == IF isNegative(a, w) THEN bvsub(0, a, w) ELSE a
toBVBool(c) == IF c THEN 1 ELSE 0

(***************************************************************************)
(* Types and aggregate values (IR::Type).  A scalar StateValue is          *)
(* [value, non_poison: BOOLEAN]; an aggregate StateValue is the            *)
(* concatenation of its elements, first element in the most significant    *)
(* bits, with one non_poison bit per scalar element.                       *)
(***************************************************************************)
IntType(w) == [kind |-> "int", bits |-> w]
VectorType(k, child) == [kind |-> "vec", children |-> [i \in 1..k |-> child]]
StructType(tys) == [kind |-> "struct", children |-> tys]
isVectorType(ty) == ty.kind = "vec"
numElementsConst(ty) == Len(ty.children)
getChild(ty, i) == ty.children[i + 1]

RECURSIVE bitsUpTo(_, _)
RECURSIVE bits(_)
\* the bits of the children n+1.. of an aggregate type
bitsUpTo(ty, n) ==
  IF n >= Len(ty.children) THEN 0
  ELSE bits(ty.children[n + 1]) + bitsUpTo(ty, n + 1)
bits(ty) == IF ty.kind \in {"int", "float", "ptr"} THEN ty.bits ELSE bitsUpTo(ty, 0)
RECURSIVE np_bitsUpTo(_, _)
RECURSIVE np_bits(_)
np_bitsUpTo(ty, n) ==
  IF n >= Len(ty.children) THEN 0
  ELSE np_bits(ty.children[n + 1]) + np_bitsUpTo(ty, n + 1)
np_bits(ty) == IF ty.kind \in {"int", "float", "ptr"} THEN 1 ELSE np_bitsUpTo(ty, 0)

toBV(ty, sv) ==
  IF ty.kind = "int"
  THEN [value |-> sv.value, non_poison |-> toBVBool(sv.non_poison)]
  ELSE sv
fromBV(ty, bv) ==
  IF ty.kind = "int"
  THEN [value |-> bv.value, non_poison |-> bv.non_poison = 1]
  ELSE bv

RECURSIVE concatVals(_, _, _)
\* the concatenation of the first n elements
concatVals(ty, vals, n) ==
  IF n = 0 THEN [value |-> 0, non_poison |-> 0]
  ELSE LET cty == ty.children[n]
           front == concatVals(ty, vals, n - 1)
           vv == toBV(cty, vals[n])
       IN [value |-> front.value * Pow2(bits(cty)) + vv.value,
           non_poison |-> front.non_poison * Pow2(np_bits(cty)) + vv.non_poison]

\* vals[i] is the StateValue of element i - 1 of the aggregate type ty
aggregateVals(ty, vals) == concatVals(ty, vals, Len(vals))

\* element i (counted from 0) of the aggregate StateValue v of type ty
extract(ty, v, i) ==
  LET cty == ty.children[i + 1]
      lo == bitsUpTo(ty, i + 1)
      nplo == np_bitsUpTo(ty, i + 1)
  IN fromBV(cty,
            [value |-> (v.value \div Pow2(lo)) % Pow2(bits(cty)),
             non_poison |-> (v.non_poison \div Pow2(nplo)) % Pow2(np_bits(cty))])

(***************************************************************************)
(* State::getAndAddPoisonUB: the operand must not be poison, in any of     *)
(* its elements.  The set of UB conditions it adds.                        *)
(***************************************************************************)
getAndAddPoisonUB(ty, v) ==
  IF ty.kind = "int"
  THEN {[cond |-> "non-poison operand", lane |-> 0, holds |-> v.non_poison]}
  ELSE {[cond |-> "non-poison operand", lane |-> 0,
         holds |-> v.non_poison = Pow2(np_bits(ty)) - 1]}

(***************************************************************************)
(* BinOp                                                                   *)
(***************************************************************************)
BinOpOps ==
  {"Add", "Sub", "Mul", "SDiv", "UDiv", "SRem", "URem", "Shl", "AShr", "LShr",
   "SAdd_Sat", "UAdd_Sat", "SSub_Sat", "USub_Sat", "SShl_Sat", "UShl_Sat",
   "And", "Or", "Xor", "Cttz", "Ctlz",
   "SAdd_Overflow", "UAdd_Overflow", "SSub_Overflow", "USub_Overflow",
   "SMul_Overflow", "UMul_Overflow", "UMin", "UMax", "SMin", "SMax", "Abs"}

\* the flags the constructor accepts for each opcode
BinOpFlags(op) ==
  IF op \in {"Add", "Sub", "Mul", "Shl"} THEN SUBSET {"NSW", "NUW"}
  ELSE IF op \in {"SDiv", "UDiv", "AShr", "LShr"} THEN SUBSET {"Exact"}
  ELSE {{}}

isDivOrRem(op) == op \in {"SDiv", "SRem", "UDiv", "URem"}

vertical_zip(op) ==
  op \in {"SAdd_Overflow", "UAdd_Overflow", "SSub_Overflow", "USub_Overflow",
          "SMul_Overflow", "UMul_Overflow"}

\* the opcodes whose second operand is a scalar i1 whatever the first is
rhsIsScalarBool(op) == op \in {"Abs", "Cttz", "Ctlz"}

\* div_ub without the test of the divisor against 0
div_ub_noZeroCheck(a, b, ap, bp, sign, w) ==
  IF sign
  THEN {[cond |-> "(ap && a != IntSMin) || b != -1",
         holds |-> (ap /\ a # IntSMin(w)) \/ b # mkInt(-1, w)]}
  ELSE {}

\* div_ub that trusts the value of a poison dividend
div_ub_ignoresPoison(a, b, ap, bp, sign, w) ==
  {[cond |-> "b != 0", holds |-> b # 0]}
  \cup (IF sign
        THEN {[cond |-> "(ap && a != IntSMin) || b != -1",
               holds |-> a # IntSMin(w) \/ b # mkInt(-1, w)]}
        ELSE {})

\* the UB conditions a division or remainder adds for one pair of scalars
div_ub(a, b, ap, bp, sign, w) ==
  {[cond |-> "b != 0", holds |-> b # 0]}
  \cup (IF sign
        THEN {[cond |-> "(ap && a != IntSMin) || b != -1",
               holds |-> (ap /\ a # IntSMin(w)) \/ b # mkInt(-1, w)]}
        ELSE {})

\* the shift-amount test with an off-by-one bound
shift_non_poison_ule(b, w) == b <= w

\* a shift by the bit width or more is poison
shift_non_poison(b, w) == ult(b, w)

\* the lambda fn that BinOp::toSMT selects for the opcode:
\* the value, the operation's own non_poison, and the UB conditions it adds
BinOp_fn(op, flags, a, ap, b, bp, w) ==
  CASE op = "Add" ->
         [value |-> bvadd(a, b, w),
          non_poison |-> /\ ("NSW" \in flags => add_no_soverflow(a, b, w))
                         /\ ("NUW" \in flags => add_no_uoverflow(a, b, w)),
          ub |-> {}]
    [] op = "Sub" ->
         [value |-> bvsub(a, b, w),
          non_poison |-> /\ ("NSW" \in flags => sub_no_soverflow(a, b, w))
                         /\ ("NUW" \in flags => sub_no_uoverflow(a, b, w)),
          ub |-> {}]
    [] op = "Mul" ->
         [value |-> bvmul(a, b, w),
          non_poison |-> /\ ("NSW" \in flags => mul_no_soverflow(a, b, w))
                         /\ ("NUW" \in flags => mul_no_uoverflow(a, b, w)),
          ub |-> {}]
    [] op = "SDiv" ->
         [value |-> sdiv(a, b, w),
          non_poison |-> ("Exact" \in flags => sdiv_exact(a, b, w)),
          ub |-> div_ub(a, b, ap, bp, TRUE, w)]
    [] op = "UDiv" ->
         [value |-> udiv(a, b, w),
          non_poison |-> ("Exact" \in flags => udiv_exact(a, b, w)),
          ub |-> div_ub(a, b, ap, bp, FALSE, w)]
    [] op = "SRem" ->
         [value |-> srem(a, b, w), non_poison |-> TRUE,
          ub |-> div_ub(a, b, ap, bp, TRUE, w)]
    [] op = "URem" ->
         [value |-> urem(a, b, w), non_poison |-> TRUE,
          ub |-> div_ub(a, b, ap, bp, FALSE, w)]
    [] op = "Shl" ->
         [value |-> shl(a, b, w),
          non_poison |-> /\ shift_non_poison(b, w)
                         /\ ("NSW" \in flags => shl_no_soverflow(a, b, w))
                         /\ ("NUW" \in flags => shl_no_uoverflow(a, b, w)),
          ub |-> {}]
    [] op = "AShr" ->
         [value |-> ashr(a, b, w),
          non_poison |-> shift_non_poison(b, w) /\ ("Exact" \in flags => ashr_exact(a, b, w)),
          ub |-> {}]
    [] op = "LShr" ->
         [value |-> lshr(a, b, w),
          non_poison |-> shift_non_poison(b, w) /\ ("Exact" \in flags => lshr_exact(a, b, w)),
          ub |-> {}]
    [] op = "SAdd_Sat" -> [value |-> sadd_sat(a, b, w), non_poison |-> TRUE, ub |-> {}]
    [] op = "UAdd_Sat" -> [value |-> uadd_sat(a, b, w), non_poison |-> TRUE, ub |-> {}]
    [] op = "SSub_Sat" -> [value |-> ssub_sat(a, b, w), non_poison |-> TRUE, ub |-> {}]
    [] op = "USub_Sat" -> [value |-> usub_sat(a, b, w), non_poison |-> TRUE, ub |-> {}]
    [] op = "SShl_Sat" -> [value |-> sshl_sat(a, b, w), non_poison |-> ult(b, w), ub |-> {}]
    [] op = "UShl_Sat" -> [value |-> ushl_sat(a, b, w), non_poison |-> ult(b, w), ub |-> {}]
    [] op = "And" -> [value |-> bvand(a, b, w), non_poison |-> TRUE, ub |-> {}]
    [] op = "Or" -> [value |-> bvor(a, b, w), non_poison |-> TRUE, ub |-> {}]
    [] op = "Xor" -> [value |-> bvxor(a, b, w), non_poison |-> TRUE, ub |-> {}]
    [] op = "Cttz" ->
         [value |-> cttz(a, mkUInt(w, w), w), non_poison |-> b = 0 \/ a # 0, ub |-> {}]
    [] op = "Ctlz" ->
         [value |-> ctlz(a, w), non_poison |-> b = 0 \/ a # 0, ub |-> {}]
    [] op = "SAdd_Overflow" ->
         [value |-> bvadd(a, b, w),
          non_poison |-> toBVBool(~add_no_soverflow(a, b, w)), ub |-> {}]
    [] op = "UAdd_Overflow" ->
         [value |-> bvadd(a, b, w),
          non_poison |-> toBVBool(~add_no_uoverflow(a, b, w)), ub |-> {}]
    [] op = "SSub_Overflow" ->
         [value |-> bvsub(a, b, w),
          non_poison |-> toBVBool(~sub_no_soverflow(a, b, w)), ub |-> {}]
    [] op = "USub_Overflow" ->
         [value |-> bvsub(a, b, w),
          non_poison |-> toBVBool(~sub_no_uoverflow(a, b, w)), ub |-> {}]
    [] op = "SMul_Overflow" ->
         [value |-> bvmul(a, b, w),
          non_poison |-> toBVBool(~mul_no_soverflow(a, b, w)), ub |-> {}]
    [] op = "UMul_Overflow" ->
         [value |-> bvmul(a, b, w),
          non_poison |-> toBVBool(~mul_no_uoverflow(a, b, w)), ub |-> {}]
    [] op = "UMin" -> [value |-> umin(a, b), non_poison |-> ap /\ bp, ub |-> {}]
    [] op = "UMax" -> [value |-> umax(a, b), non_poison |-> ap /\ bp, ub |-> {}]
    [] op = "SMin" -> [value |-> smin(a, b, w), non_poison |-> ap /\ bp, ub |-> {}]
    [] op = "SMax" -> [value |-> smax(a, b, w), non_poison |-> ap /\ bp, ub |-> {}]
    [] op = "Abs" ->
         [value |-> bvabs(a, w),
          non_poison |-> ap /\ bp /\ (b = 0 \/ a # IntSMin(w)), ub |-> {}]

\* the pair (sv1, sv2) that zip_op makes of the outcome r of fn
zip_result(r, ap, bp) ==
  [sv1 |-> [value |-> r.value, non_poison |-> ap /\ bp],
   sv2 |-> [value |-> r.non_poison, non_poison |-> ap /\ bp],
   ub |-> r.ub]

\* zip_op: the two results of an overflow-detecting operation
zip_op(op, flags, a, ap, b, bp, w) ==
  zip_result(BinOp_fn(op, flags, a, ap, b, bp, w), ap, bp)

\* scalar_result that forgets the poison of the first operand
scalar_result_dropsLhs(r, ap, bp) ==
  [sv |-> [value |-> r.value, non_poison |-> bp /\ r.non_poison],
   ub |-> r.ub]

\* the StateValue that scalar_op makes of the outcome r of fn
scalar_result(r, ap, bp) ==
  [sv |-> [value |-> r.value, non_poison |-> ap /\ bp /\ r.non_poison],
   ub |-> r.ub]

\* scalar_op: the result of every other operation
scalar_op(op, flags, a, ap, b, bp, w) ==
  scalar_result(BinOp_fn(op, flags, a, ap, b, bp, w), ap, bp)

\* the UB conditions of one lane, tagged with the lane they were added for
atLane(ubs, i) == {[cond |-> u.cond, lane |-> i, holds |-> u.holds] : u \in ubs}

\* the type of the result of a BinOp whose first operand has type lty
BinOp_retty(op, lty) ==
  IF ~vertical_zip(op) THEN lty
  ELSE IF isVectorType(lty)
  THEN StructType(<<lty, VectorType(numElementsConst(lty), IntType(1))>>)
  ELSE StructType(<<lty, IntType(1)>>)

\* one iteration of the lane loops of BinOp::toSMT, on the lanes ai and bi
BinOp_lane(ins, ai, bi, w) ==
  IF vertical_zip(ins.op)
  THEN zip_op(ins.op, ins.flags, ai.value, ai.non_poison, bi.value, bi.non_poison, w)
  ELSE scalar_op(ins.op, ins.flags, ai.value, ai.non_poison, bi.value,
                 bi.non_poison, w)

\* the second operand, always read at lane 0
BinOp_bi_lane0(ins, i) ==
  IF rhsIsScalarBool(ins.op) THEN ins.b ELSE extract(ins.rty, ins.b, 0)

\* the second operand of lane i: the whole operand for Abs, Cttz and Ctlz
BinOp_bi(ins, i) ==
  IF rhsIsScalarBool(ins.op) THEN ins.b ELSE extract(ins.rty, ins.b, i)

RECURSIVE BinOp_lanes(_, _, _)
\* the lane loops of BinOp::toSMT: vals after the iterations i .. e - 1
BinOp_lanes(ins, i, vals) ==
  IF i = numElementsConst(ins.lty) THEN vals
  ELSE BinOp_lanes(ins, i + 1,
         Append(vals, BinOp_lane(ins, extract(ins.lty, ins.a, i), BinOp_bi(ins, i),
                                 bits(getChild(ins.lty, 0)))))

\* the UB conditions the iterations added, each tagged with its lane
lanesUB(vals) == UNION {atLane(vals[i].ub, i - 1) : i \in 1..Len(vals)}

\* the result of a vector BinOp, reassembled from the results of its lanes
BinOp_aggregate(ins, retty, vals, ub0) ==
  IF vertical_zip(ins.op)
  THEN [sv |-> aggregateVals(retty,
                 <<aggregateVals(getChild(retty, 0),
                                 [i \in 1..Len(vals) |-> vals[i].sv1]),
                   aggregateVals(getChild(retty, 1),
                                 [i \in 1..Len(vals) |-> vals[i].sv2])>>),
        ub |-> ub0 \cup lanesUB(vals)]
  ELSE [sv |-> aggregateVals(retty, [i \in 1..Len(vals) |-> vals[i].sv]),
        ub |-> ub0 \cup lanesUB(vals)]

\* the result of a scalar BinOp, from the outcome r of zip_op or scalar_op
BinOp_scalar(ins, retty, r, ub0) ==
  IF vertical_zip(ins.op)
  THEN [sv |-> aggregateVals(retty, <<r.sv1, r.sv2>>), ub |-> ub0 \cup atLane(r.ub, 0)]
  ELSE [sv |-> r.sv, ub |-> ub0 \cup atLane(r.ub, 0)]

\* the UB that BinOp::toSMT adds when it reads its second operand
BinOp_rhsUB(ins) ==
  IF isDivOrRem(ins.op) THEN getAndAddPoisonUB(ins.rty, ins.b) ELSE {}

\* BinOp::toSMT on an instruction
\* ins = [op, flags, lty, rty, a, b]: the operands' types and StateValues.
\* [sv: the result, ub: the UB conditions added to the state]
BinOp_toSMT(ins) ==
  IF isVectorType(ins.lty)
  THEN BinOp_aggregate(ins, BinOp_retty(ins.op, ins.lty),
                       BinOp_lanes(ins, 0, <<>>), BinOp_rhsUB(ins))
  ELSE BinOp_scalar(ins, BinOp_retty(ins.op, ins.lty),
                    BinOp_lane(ins, ins.a, ins.b, bits(ins.lty)), BinOp_rhsUB(ins))

(***************************************************************************)
(* The operands an instruction is encoded on.                              *)
(***************************************************************************)
ScalarSVs(w) == [value : 0..(Pow2(w) - 1), non_poison : BOOLEAN]
\* the lanes of vector operands: boundary values of the lane type and a
\* poison lane
LanesA(w) ==
  [value : {0, IntSMin(w)}, non_poison : {TRUE}]
  \cup {[value |-> 0, non_poison |-> FALSE]}
LanesB(w) ==
  [value : {0, 1, IntUMax(w)}, non_poison : {TRUE}]
  \cup {[value |-> 0, non_poison |-> FALSE]}

NoInstr == [kind |-> "none"]
NoValue == [value |-> 0, non_poison |-> TRUE]

\* the state after an instruction was encoded: r is what its toSMT returned
Encoded(ins, r) ==
  /\ instr' = ins
  /\ result' = r.sv
  /\ ub' = r.ub
  /\ UNCHANGED <<pre, qvars, env, data, approx>>

\* encode a BinOp on scalar operands in a fresh state
EncodeBinOp ==
  /\ instr = NoInstr
  /\ \E op \in BinOpOps :
    \E flags \in BinOpFlags(op) :
      LET lty == IntType(BITS)
          rty == IF rhsIsScalarBool(op) THEN IntType(1) ELSE lty
      IN \E a \in ScalarSVs(bits(lty)), b \in ScalarSVs(bits(rty)) :
           LET ins == [kind |-> "BinOp", op |-> op, flags |-> flags,
                       lty |-> lty, rty |-> rty, a |-> a, b |-> b,
                       la |-> <<a>>, lb |-> <<b>>]
           IN Encoded(ins, BinOp_toSMT(ins))

\* encode a BinOp on vector operands in a fresh state
EncodeBinOpVec ==
  /\ instr = NoInstr
  /\ \E op \in BinOpOps :
    \E flags \in BinOpFlags(op) :
      \E k \in 1..MaxLanes :
        LET lty == VectorType(k, IntType(VBITS))
            rty == IF rhsIsScalarBool(op) THEN IntType(1) ELSE lty
        IN \E la \in [1..k -> LanesA(VBITS)] :
             \E lb \in IF rhsIsScalarBool(op)
                       THEN [1..1 -> ScalarSVs(1)]
                       ELSE [1..k -> LanesB(VBITS)] :
               LET ins == [kind |-> "BinOp", op |-> op, flags |-> flags,
                           lty |-> lty, rty |-> rty,
                           a |-> aggregateVals(lty, la),
                           b |-> IF rhsIsScalarBool(op) THEN lb[1]
                                 ELSE aggregateVals(rty, lb),
                           la |-> la, lb |-> lb]
               IN Encoded(ins, BinOp_toSMT(ins))

\* no free variable has a value yet, and the varargs ledger is empty
NoEnv == [kind |-> "none"]
NoData == <<>>

Init ==
  /\ instr = NoInstr
  /\ result = NoValue
  /\ ub = {}
  /\ pre = {}
  /\ qvars = {}
  /\ env = NoEnv
  /\ data = NoData
  /\ approx = {}

NextBinOp == EncodeBinOp \/ EncodeBinOpVec

SpecBinOp == Init /\ [][NextBinOp]_vars

(***************************************************************************)
(* Properties of BinOp::toSMT                                              *)
(***************************************************************************)
IsBinOp == instr.kind = "BinOp"
\* some UB condition the instruction added is false: the instruction is UB
UBViolated == \E u \in ub : ~u.holds
\* the lanes of the encoded BinOp (one for a scalar), and their width
Lanes == 1..Len(instr.la)
LaneBits == IF isVectorType(instr.lty) THEN bits(getChild(instr.lty, 0))
            ELSE bits(instr.lty)
\* the operands of lane i
LaneA(i) == instr.la[i]
LaneB(i) == IF rhsIsScalarBool(instr.op) THEN instr.lb[1] ELSE instr.lb[i]
\* the non_poison of everything the result holds for lane i
ResultNPs(i) ==
  LET retty == BinOp_retty(instr.op, instr.lty)
  IN IF vertical_zip(instr.op)
     THEN IF isVectorType(instr.lty)
          THEN {extract(getChild(retty, j), extract(retty, result, j), i - 1).non_poison
                  : j \in {0, 1}}
          ELSE {extract(retty, result, j).non_poison : j \in {0, 1}}
     ELSE IF isVectorType(instr.lty)
          THEN {extract(retty, result, i - 1).non_poison}
          ELSE {result.non_poison}

\* C1: sdiv, udiv, srem and urem add the UB condition "divisor != 0" for the
\* scalar or for each lane, so a zero divisor is always UB; for udiv and urem
\* with a non-poison divisor a zero divisor is the only UB.
C1_DivByZeroIsUB ==
  (IsBinOp /\ isDivOrRem(instr.op)) =>
    /\ \A i \in Lanes :
         [cond |-> "b != 0", lane |-> i - 1, holds |-> LaneB(i).value # 0] \in ub
    /\ (\E i \in Lanes : LaneB(i).value = 0) => UBViolated
    /\ (instr.op \in {"UDiv", "URem"} /\ \A i \in Lanes : LaneB(i).non_poison)
         => (UBViolated <=> \E i \in Lanes : LaneB(i).value = 0)

C1_Witness ==
  /\ IsBinOp /\ instr.op = "URem" /\ isVectorType(instr.lty)
  /\ Len(instr.lb) = 2
  /\ \A i \in Lanes : LaneA(i).non_poison /\ LaneB(i).non_poison
  /\ LaneB(1).value # 0 /\ LaneB(2).value = 0
  /\ UBViolated

\* C2 as stated: a signed division is UB exactly when b = 0 or
\* (a = INT_MIN and b = -1), for every dividend and every divisor that is not
\* poison.
C2_AsStated ==
  (IsBinOp /\ instr.op = "SDiv" /\ ~isVectorType(instr.lty)
     /\ instr.b.non_poison) =>
    (UBViolated <=>
       \/ instr.b.value = 0
       \/ (instr.a.value = IntSMin(BITS) /\ instr.b.value = mkInt(-1, BITS)))

\* C2 amended: a signed division or remainder is UB, in the scalar or in some
\* lane, exactly when the divisor is poison, or is 0, or is -1 while the
\* dividend is INT_MIN or poison.  For non-poison operands that is: b = 0 or
\* (a = INT_MIN and b = -1).
C2_SignedDivUB ==
  (IsBinOp /\ instr.op \in {"SDiv", "SRem"}) =>
    (UBViolated <=>
       \E i \in Lanes :
         \/ ~LaneB(i).non_poison
         \/ LaneB(i).value = 0
         \/ /\ LaneB(i).value = mkInt(-1, LaneBits)
            /\ (~LaneA(i).non_poison \/ LaneA(i).value = IntSMin(LaneBits)))

C2_Witness ==
  /\ IsBinOp /\ instr.op = "SDiv" /\ ~isVectorType(instr.lty)
  /\ instr.a.non_poison /\ instr.b.non_poison
  /\ instr.a.value = IntSMin(BITS) /\ instr.b.value = mkInt(-1, BITS)
  /\ UBViolated

ShiftOps == {"Shl", "AShr", "LShr"}

\* C3 as stated: a shift amount >= the bit width is flagged as UB.
C3_AsStated ==
  (IsBinOp /\ instr.op \in ShiftOps
     /\ \E i \in Lanes : LaneB(i).value >= LaneBits) => UBViolated

\* C3 amended: shl, ashr and lshr add no UB condition at all; a shift amount
\* >= the bit width makes the result (the lane) poison, whatever flags are set.
C3_ShiftIsPoison ==
  (IsBinOp /\ instr.op \in ShiftOps) =>
    /\ ub = {}
    /\ \A i \in Lanes :
         LaneB(i).value >= LaneBits => ResultNPs(i) = {FALSE}

C3_Witness ==
  /\ IsBinOp /\ instr.op = "Shl" /\ instr.flags = {"NSW", "NUW"}
  /\ ~isVectorType(instr.lty)
  /\ instr.a.non_poison /\ instr.b.non_poison
  /\ instr.b.value = BITS
  /\ result.non_poison = FALSE
  /\ ub = {}

OpNonPoison(op, a, b, w) ==
  IF op \in {"Shl", "AShr", "LShr", "SShl_Sat", "UShl_Sat"} THEN b < w
  ELSE IF op \in {"Cttz", "Ctlz"} THEN b = 0 \/ a # 0
  ELSE IF op = "Abs" THEN b = 0 \/ a # IntSMin(w)
  ELSE TRUE

VARARG_BITS == 8

\* pointer expressions of the function under encoding, in the ledger's order
PtrExprs == <<"p", "q">>
PtrKeys == {PtrExprs[i] : i \in 1..Len(PtrExprs)}
\* the position of a key in the ledger's order
KeyIndex(k) == CHOOSE i \in 1..Len(PtrExprs) : PtrExprs[i] = k
PtrVals == 1..2

\* ptr == raw_p under the valuation
ptrEq(k, raw_p) == env.ptr[k] = env.ptr[raw_p]

VarArgsEntry(alive, next_arg, num_args, is_va_start, active) ==
  [alive |-> alive, next_arg |-> next_arg, num_args |-> num_args,
   is_va_start |-> is_va_start, active |-> active]

\* map::try_emplace: the entry is inserted only when the key is absent
try_emplace(d, k, entry) ==
  IF k \in DOMAIN d THEN d
  ELSE [x \in DOMAIN d \cup {k} |-> IF x = k THEN entry ELSE d[x]]

\* map::operator[] followed by assignment
assign(d, k, entry) ==
  [x \in DOMAIN d \cup {k} |-> IF x = k THEN entry ELSE d[x]]

\* a UB condition added for the ledger entry of key k
entryUB(c, k, holds) == [cond |-> c, lane |-> KeyIndex(k), holds |-> holds]
\* a UB condition added for the instruction as a whole
instrUB(c, holds) == [cond |-> c, lane |-> 0, holds |-> holds]

\* a match of the operand against its own key only
matched_one_sameKey(d, arg_ptr) == arg_ptr \in DOMAIN d

\* OrExpr over ptr == arg_ptr for every key
matched_one(d, arg_ptr) == \E k \in DOMAIN d : ptrEq(k, arg_ptr)

\* isTrue() is a test on the expression: the disjunction folds to true when
\* arg_ptr is itself a key
matched_isTrue(d, arg_ptr) == arg_ptr \in DOMAIN d

\* ensure_varargs_ptr that makes every entry it inserts active
ensure_varargs_ptr_active(d, arg_ptr, isLocal) ==
  LET matched == matched_one(d, arg_ptr)
  IN IF matched_isTrue(d, arg_ptr)
     THEN [data |-> d, ub |-> {}]
     ELSE [data |-> try_emplace(d, arg_ptr,
                      VarArgsEntry(env.vararg_alive[env.ptr[arg_ptr]], mkUInt(0, VARARG_BITS),
                                   env.vararg_num_args[env.ptr[arg_ptr]], FALSE, TRUE)),
           ub |-> {instrUB("matched || !isLocal", matched \/ ~isLocal)}]

ensure_varargs_ptr(d, arg_ptr, isLocal) ==
  LET matched == matched_one(d, arg_ptr)
  IN IF matched_isTrue(d, arg_ptr)
     THEN [data |-> d, ub |-> {}]
     ELSE [data |-> try_emplace(d, arg_ptr,
                      VarArgsEntry(env.vararg_alive[env.ptr[arg_ptr]], mkUInt(0, VARARG_BITS),
                                   env.vararg_num_args[env.ptr[arg_ptr]], FALSE, ~matched)),
           ub |-> {instrUB("matched || !isLocal", matched \/ ~isLocal)}]

\* what the memory and the function say about one pointer operand
PtrFacts == [np : BOOLEAN, isBlockAlive : BOOLEAN, isLocal : BOOLEAN]

\* a va_list operand that is not poison and lies in a live block
ValidPtrFacts == {f \in PtrFacts : f.np /\ f.isBlockAlive}

\* va_start that leaves the entries already in the ledger as they are
VaStart_toSMT_insertOnly(d, raw_p, f, isVarArgs, blockSizeOk) ==
  [data |-> try_emplace(d, raw_p,
              VarArgsEntry(TRUE, mkUInt(0, VARARG_BITS), env.num_va_args, TRUE,
                           ~matched_one(d, raw_p))),
   ub |-> {instrUB("isVarArgs", isVarArgs)},
   sv |-> NoValue]

VaStart_toSMT(d, raw_p, f, isVarArgs, blockSizeOk) ==
  LET upd == [k \in DOMAIN d |->
                LET eq == ptrEq(k, raw_p)
                IN VarArgsEntry(d[k].alive \/ eq,
                                IF eq THEN mkUInt(0, VARARG_BITS) ELSE d[k].next_arg,
                                IF eq THEN env.num_va_args ELSE d[k].num_args,
                                IF eq THEN TRUE ELSE d[k].is_va_start,
                                d[k].active)]
  IN [data |-> try_emplace(upd, raw_p,
                 VarArgsEntry(TRUE, mkUInt(0, VARARG_BITS), env.num_va_args, TRUE,
                              ~matched_one(d, raw_p))),
      ub |-> {instrUB("isVarArgs", isVarArgs),
              instrUB("non-poison operand", f.np),
              instrUB("isBlockAlive", f.isBlockAlive),
              instrUB("blockSize >= 4", blockSizeOk)},
      sv |-> NoValue]

\* the loop of va_end ending only the entry whose key is the operand itself
VaEnd_loop_sameKey(d, raw_p) ==
  [data |-> [k \in DOMAIN d |-> [d[k] EXCEPT !.alive = d[k].alive /\ k # raw_p]],
   ub |-> {entryUB("(eq && active) => alive", k,
                   (ptrEq(k, raw_p) /\ d[k].active) => d[k].alive) : k \in DOMAIN d}]

VaEnd_loop(d, raw_p) ==
  [data |-> [k \in DOMAIN d |-> [d[k] EXCEPT !.alive = d[k].alive /\ ~ptrEq(k, raw_p)]],
   ub |-> {entryUB("(eq && active) => alive", k,
                   (ptrEq(k, raw_p) /\ d[k].active) => d[k].alive) : k \in DOMAIN d}]

VaEnd_toSMT(d, raw_p, f) ==
  LET e == ensure_varargs_ptr(d, raw_p, f.isLocal)
      l == VaEnd_loop(e.data, raw_p)
  IN [data |-> l.data,
      ub |-> {instrUB("non-poison operand", f.np),
              instrUB("isBlockAlive", f.isBlockAlive)} \cup e.ub \cup l.ub,
      sv |-> NoValue]


\* DisjointExpr: the value whose selector holds (the last one in the ledger's
\* order, should several hold), or the default when none holds
RECURSIVE DisjointExpr(_, _, _, _)
DisjointExpr(vals, sel, i, acc) ==
  IF i > Len(PtrExprs) THEN acc
  ELSE LET k == PtrExprs[i]
       IN DisjointExpr(vals, sel, i + 1,
                       IF k \in DOMAIN sel /\ sel[k] THEN vals[k] ELSE acc)

\* the first value added, which a DisjointExpr without default falls back to
firstAdded(vals) ==
  vals[PtrExprs[CHOOSE i \in 1..Len(PtrExprs) :
                  /\ PtrExprs[i] \in DOMAIN vals
                  /\ \A j \in 1..(i - 1) : PtrExprs[j] \notin DOMAIN vals]]

\* the loop of va_copy without "kill aliases"
VaCopy_loop_keepsAliases(d, dst_raw, src_raw) ==
  LET select == [k \in DOMAIN d |-> d[k].active /\ ptrEq(k, src_raw)]
      picked == DisjointExpr(d, select, 1, firstAdded(d))
  IN [data |-> assign(d, dst_raw,
                      VarArgsEntry(TRUE, picked.next_arg, picked.num_args,
                                   picked.is_va_start, TRUE)),
      ub |-> {entryUB("select => alive", k, select[k] => d[k].alive) : k \in DOMAIN d}]

VaCopy_loop(d, dst_raw, src_raw) ==
  LET select == [k \in DOMAIN d |-> d[k].active /\ ptrEq(k, src_raw)]
      picked == DisjointExpr(d, select, 1, firstAdded(d))
      killed == [k \in DOMAIN d |->
                   [d[k] EXCEPT !.active = d[k].active /\ ~ptrEq(k, dst_raw)]]
  IN [data |-> assign(killed, dst_raw,
                      VarArgsEntry(TRUE, picked.next_arg, picked.num_args,
                                   picked.is_va_start, TRUE)),
      ub |-> {entryUB("select => alive", k, select[k] => d[k].alive) : k \in DOMAIN d}]

VaCopy_toSMT(d, dst_raw, src_raw, fd, fs, sameSize) ==
  LET e == ensure_varargs_ptr(d, src_raw, fs.isLocal)
      l == VaCopy_loop(e.data, dst_raw, src_raw)
  IN [data |-> l.data,
      ub |-> {instrUB("non-poison operand", fd.np /\ fs.np),
              instrUB("dst.isBlockAlive", fd.isBlockAlive),
              instrUB("src.isBlockAlive", fs.isBlockAlive),
              instrUB("dst.blockSize == src.blockSize", sameSize)} \cup e.ub \cup l.ub,
      sv |-> NoValue]

\* the value va_arg reads through one entry: an application of "va_arg" to the
\* index for an entry made by va_start, of "va_arg_in" to the pointer and the
\* index otherwise
va_arg_val(k, entry) ==
  IF entry.is_va_start
  THEN [value |-> <<"va_arg", 0, entry.next_arg>>,
        non_poison |-> <<"va_arg_np", 0, entry.next_arg>>]
  ELSE [value |-> <<"va_arg_in", env.ptr[k], entry.next_arg>>,
        non_poison |-> <<"va_arg_np_in", env.ptr[k], entry.next_arg>>]

\* entry.next_arg + one, in VARARG_BITS bits
next_arg_inc(entry) == bvadd(entry.next_arg, mkUInt(1, VARARG_BITS), VARARG_BITS)

VaArg_loop(d, raw_p) ==
  LET select == [k \in DOMAIN d |-> d[k].active /\ ptrEq(k, raw_p)]
      vals == [k \in DOMAIN d |-> va_arg_val(k, d[k])]
  IN [data |-> [k \in DOMAIN d |->
                  [d[k] EXCEPT !.next_arg =
                     IF ptrEq(k, raw_p) THEN next_arg_inc(d[k]) ELSE d[k].next_arg]],
      ub |-> {entryUB("select => alive && num_args >= next_arg + 1", k,
                      select[k] => (d[k].alive /\ uge(d[k].num_args, next_arg_inc(d[k]))))
                : k \in DOMAIN d},
      sv |-> DisjointExpr(vals, select, 1, NoValue)]

VaArg_toSMT(d, raw_p, f) ==
  LET e == ensure_varargs_ptr(d, raw_p, f.isLocal)
      l == VaArg_loop(e.data, raw_p)
  IN [data |-> l.data,
      ub |-> {instrUB("non-poison operand", f.np),
              instrUB("isBlockAlive", f.isBlockAlive)} \cup e.ub \cup l.ub,
      sv |-> l.sv]

\* every UB condition added so far holds: the path is still defined
PathOk == (instr = NoInstr \/ instr.ok) /\ \A u \in ub : u.holds

\* the instruction is encoded: its value, the UB conditions it added and the
\* ledger it leaves
EncodedVa(ins, before, ok, r) ==
  /\ instr' = [ins EXCEPT !.before = before, !.ok = ok]
  /\ result' = r.sv
  /\ ub' = r.ub
  /\ data' = r.data
  /\ UNCHANGED <<pre, qvars, env, approx>>


\* values of "num_va_args" and of vararg_num_args(ptr): none, two, and the most
\* that VARARG_BITS bits can count
NumArgVals == {0, 2, IntUMax(VARARG_BITS)}

\* valuations for a function that passes its one va_list p around: distinct
\* pointer expressions denote distinct pointers
ArgEnvs ==
  {[ptr |-> [k \in PtrKeys |-> KeyIndex(k)],
    num_va_args |-> n,
    vararg_alive |-> [v \in PtrVals |-> al],
    vararg_num_args |-> [v \in PtrVals |-> un]] :
     n \in NumArgVals, al \in BOOLEAN, un \in NumArgVals}

InitVaArg ==
  /\ instr = NoInstr
  /\ result = NoValue
  /\ ub = {}
  /\ pre = {}
  /\ qvars = {}
  /\ env \in ArgEnvs
  /\ data = NoData
  /\ approx = {}

\* call void @llvm.va_start(p)
EncodeVaStart ==
  \E f \in ValidPtrFacts, isVarArgs \in BOOLEAN :
    EncodedVa([kind |-> "VaStart", ptr |-> "p", f |-> f, isVarArgs |-> isVarArgs,
               before |-> NoData, ok |-> TRUE],
              data, PathOk, VaStart_toSMT(data, "p", f, isVarArgs, TRUE))

\* va_arg p
EncodeVaArg ==
  \E f \in ValidPtrFacts :
    EncodedVa([kind |-> "VaArg", ptr |-> "p", f |-> f, before |-> NoData, ok |-> TRUE],
              data, PathOk, VaArg_toSMT(data, "p", f))

NextVaArg == EncodeVaStart \/ EncodeVaArg

SpecVaArg == InitVaArg /\ [][NextVaArg]_vars

(***************************************************************************)
(* Properties of VaArg::toSMT                                              *)
(***************************************************************************)
IsVaArg == instr.kind = "VaArg"

\* the entry the fetch went through, as it was before the fetch
FetchedEntry == instr.before[instr.ptr]

\* the fetch was made on a pointer the ledger already tracked, on a path that
\* was defined up to the fetch
FetchOnTracked == IsVaArg /\ instr.ptr \in DOMAIN instr.before /\ instr.ok

\* the fetch added a UB condition that is violated for its entry
FetchIsUB ==
  \E u \in ub : u.lane = KeyIndex(instr.ptr) /\ ~u.holds

\* C5: va_arg on a tracked pointer adds UB unless the entry is alive and its
\* next-argument index is strictly below num_args before the fetch; after
\* va_start with num_args = 2 the first two fetches are fine and the third is
\* UB.
C5_AsStated ==
  FetchOnTracked =>
    (FetchIsUB <=> ~(FetchedEntry.alive /\ FetchedEntry.next_arg < FetchedEntry.num_args))

\* the scenario of C5 alone: with num_args = 2, an entry made by va_start
\* allows the first and the second fetch and makes the third UB
C5_Scenario ==
  (FetchOnTracked /\ FetchedEntry.alive /\ FetchedEntry.is_va_start
     /\ FetchedEntry.num_args = 2 /\ FetchedEntry.next_arg <= 2) =>
    (FetchIsUB <=> FetchedEntry.next_arg = 2)


(***************************************************************************)
(* LoopLikeFunctionApproximator                                            *)
(*                                                                         *)
(* An expression is modelled by its value under the valuation together     *)
(* with whether it is a literal constant, which is what isConst(),         *)
(* isFalse() and isTrue() test.                                            *)
(***************************************************************************)
MaxUnroll == 3
MaxSteps == 3

mkExpr(const, val) == [const |-> const, val |-> val]
isConst(e) == e.const
isFalse(e) == e.const /\ ~e.val
BoolExprs == {mkExpr(c, v) : c \in BOOLEAN, v \in BOOLEAN}

\* ith_exec(i, is_last) as a table: steps[i + 1] is the tuple
\* (value, nonpoison, UB, continue?) of iteration i
ith_exec(steps, i) == steps[i + 1]

\* is_last one index late
loop_is_last_late(i, unroll_cnt) == unroll_cnt # 0 /\ i >= unroll_cnt

\* bool is_last = i >= unroll_cnt - 1, in unsigned arithmetic: with
\* unroll_cnt = 0 the right-hand side wraps to UINT_MAX, which no i reaches
loop_is_last(i, unroll_cnt) == unroll_cnt # 0 /\ i >= unroll_cnt - 1

\* the early return of _loop without the test of is_last
loop_returns_pastLast(is_last, continue_i, ub_i, viable) ==
  isFalse(continue_i) \/ isFalse(ub_i) \/ ~viable

\* the early return of _loop
loop_returns(is_last, continue_i, ub_i, viable) ==
  is_last \/ isFalse(continue_i) \/ isFalse(ub_i) \/ ~viable

\* the triple _loop builds from iteration i and from the rest of the loop
loop_combine_dropsNp(st, next) ==
  [val |-> IF st.continue.val THEN next.val ELSE st.res,
   np |-> st.continue.val => next.np,
   ub |-> st.ub.val /\ (st.continue.val => next.ub),
   pre |-> next.pre, evals |-> next.evals + 1]

loop_combine(st, next) ==
  [val |-> IF st.continue.val THEN next.val ELSE st.res,
   np |-> st.np /\ (st.continue.val => next.np),
   ub |-> st.ub.val /\ (st.continue.val => next.ub),
   pre |-> next.pre, evals |-> next.evals + 1]

RECURSIVE _loop(_, _, _, _, _)
\* pre holds the preconditions _loop adds to the state, evals counts the
\* calls of ith_exec
_loop(steps, viable, prefix, i, unroll_cnt) ==
  LET st == ith_exec(steps, i)
      prefix_ub == prefix /\ st.ub.val
      is_last == loop_is_last(i, unroll_cnt) /\ ~isConst(st.continue)
      added == IF is_last
               THEN {[cond |-> "prefix => !continue", lane |-> i,
                      holds |-> prefix_ub => ~st.continue.val]}
               ELSE {}
  IN IF loop_returns(is_last, st.continue, st.ub, viable)
     THEN [val |-> st.res, np |-> st.np, ub |-> st.ub.val, pre |-> added,
           evals |-> 1]
     ELSE loop_combine(st, _loop(steps, viable, prefix_ub /\ st.continue.val,
                                 i + 1, unroll_cnt))

\* LoopLikeFunctionApproximator::encode
encode(steps, viable, unroll_cnt) == _loop(steps, viable, TRUE, 0, unroll_cnt)

\* the outcome of one iteration
StepOutcome(res, np, ub_i, continue_i) ==
  [res |-> res, np |-> np, ub |-> ub_i, continue |-> continue_i]

\* UB of an iteration: holds, fails, or is the literal false
StepUBs == {mkExpr(FALSE, TRUE), mkExpr(FALSE, FALSE), mkExpr(TRUE, FALSE)}

\* step functions over a scan that stops for good after n iterations at the
\* latest: every iteration but the last may continue, the last has the literal
\* false as its continue predicate; iteration i yields the value i
RECURSIVE StepTables(_, _)
StepTables(i, n) ==
  LET last == {<<StepOutcome(i, np, u, mkExpr(TRUE, FALSE))>> :
                 np \in BOOLEAN, u \in StepUBs}
  IN IF n = 1 THEN last
     ELSE last \cup
          {<<StepOutcome(i, np, u, c)>> \o t :
             np \in BOOLEAN, u \in StepUBs,
             c \in BoolExprs \ {mkExpr(TRUE, FALSE)},
             t \in StepTables(i + 1, n - 1)}

\* the approximator is run once on a step function
EncodeLoop ==
  /\ instr = NoInstr
  /\ \E steps \in StepTables(0, MaxSteps), unroll_cnt \in 0..MaxUnroll, viable \in BOOLEAN :
       LET r == encode(steps, viable, unroll_cnt)
       IN /\ instr' = [kind |-> "Loop", steps |-> steps, unroll_cnt |-> unroll_cnt,
                       viable |-> viable, evals |-> r.evals]
          /\ result' = [value |-> r.val, non_poison |-> r.np, ub |-> r.ub]
          /\ pre' = r.pre
          /\ UNCHANGED <<ub, qvars, env, data, approx>>

NextLoop == EncodeLoop

SpecLoop == Init /\ [][NextLoop]_vars

(***************************************************************************)
(* Properties of LoopLikeFunctionApproximator                              *)
(***************************************************************************)
IsLoop == instr.kind = "Loop"

\* the trip count of a scan whose continue predicate is the literal true until
\* it is the literal false: the scan has exactly Len(steps) iterations
ConstantTrip ==
  /\ IsLoop
  /\ \A j \in 1..Len(instr.steps) : isConst(instr.steps[j].continue)
  /\ Len(instr.steps) < instr.unroll_cnt

\* the hand-unrolled composition of iterations j .. k-1
RECURSIVE Unrolled(_, _)
Unrolled(steps, j) ==
  LET st == steps[j]
  IN IF j = Len(steps)
     THEN [value |-> st.res, non_poison |-> st.np, ub |-> st.ub.val]
     ELSE LET next == Unrolled(steps, j + 1)
          IN [value |-> IF st.continue.val THEN next.value ELSE st.res,
              non_poison |-> st.np /\ (st.continue.val => next.non_poison),
              ub |-> st.ub.val /\ (st.continue.val => next.ub)]

\* no iteration before the last has the literal false as its UB
NoLiteralUB ==
  \A j \in 1..(Len(instr.steps) - 1) : ~isFalse(instr.steps[j].ub)

\* C7 as stated: with a continue predicate that is the constant true for steps
\* 0..k-2 and stops at step k-1, k below the unroll bound, the approximator
\* returns, on a viable path, the hand-unrolled composition of those k steps
\* and adds no precondition.
C7_AsStated ==
  (ConstantTrip /\ instr.viable) => (result = Unrolled(instr.steps, 1) /\ pre = {})

\* C7 amended: the same, provided the path is viable and no step before the
\* last has the literal false as its UB; and whenever the continue predicate
\* is constant throughout, no precondition is added and the UB of the triple
\* is that of the hand-unrolled composition.
C7_ConstantTripUnrolls ==
  ConstantTrip =>
    /\ pre = {}
    /\ (instr.viable /\ NoLiteralUB) => result = Unrolled(instr.steps, 1)
    /\ instr.viable => result.ub = Unrolled(instr.steps, 1).ub

\* a scan of two iterations, the first of them poison, is unrolled in full
C7_Witness ==
  /\ ConstantTrip
  /\ Len(instr.steps) = 2
  /\ instr.viable /\ NoLiteralUB
  /\ ~instr.steps[1].np /\ instr.steps[2].np
  /\ result.value = 1
  /\ ~result.non_poison


(***************************************************************************)
(* Memcmp::toSMT                                                           *)
(***************************************************************************)
MaxNum == 3
MaxMemcmpUnroll == 2

\* a byte of memory: a pointer byte or an integer byte, possibly poison
Byte(isPtr, v, poison) == [isPtr |-> isPtr, v |-> v, poison |-> poison]
Bytes == <<Byte(FALSE, 0, FALSE), Byte(FALSE, 1, FALSE), Byte(TRUE, 0, FALSE),
           Byte(FALSE, 1, TRUE)>>
byte_isZero(b) == ~b.poison /\ b.v = 0

\* literal-aware conjunction and the literal true
mkAnd(a, b) ==
  mkExpr((a.const /\ b.const) \/ isFalse(a) \/ isFalse(b), a.val /\ b.val)
mkTrue == mkExpr(TRUE, TRUE)

\* the 32-bit results: zero, a 1-bit head concatenated with a 31-bit variable
concat(hi, lo) == <<hi, lo>>
zero32 == concat(0, 0)

\* val_eq of the step function; on one and the same operand both loads are the
\* same expression and the comparison folds to the literal true
val_eq_needsNonPoison(val1, val2, same) ==
  mkExpr(same,
         ~val1.poison /\ ~val2.poison /\ val1.isPtr = val2.isPtr /\ val1.v = val2.v)

val_eq(val1, val2, same) ==
  mkExpr(same,
         \/ (val1.isPtr = val2.isPtr /\ val1.v = val2.v)
         \/ (byte_isZero(val1) /\ byte_isZero(val2)))

\* the step function of Memcmp::toSMT at iteration i
Memcmp_ith_exec(m, i) ==
  LET val1 == m.mem1[i + 1]
      val2 == m.mem2[i + 1]
      pos == val1.v >= val2.v
      result_neq == IF m.is_bcmp THEN concat(0, m.result_var)
                    ELSE IF pos THEN concat(0, m.result_var)
                    ELSE concat(1, m.result_var_neg)
      eq == val_eq(val1, val2, m.same)
      np == /\ (val1.isPtr = val2.isPtr \/ byte_isZero(val1) \/ byte_isZero(val2))
            /\ ~val1.poison /\ ~val2.poison
  IN StepOutcome(IF eq.val THEN zero32 ELSE result_neq, np, mkTrue,
                 mkAnd(eq, mkExpr(m.numConst, m.vnum >= i + 2)))

Memcmp_steps(m) == [i \in 1..Len(m.mem1) |-> Memcmp_ith_exec(m, i - 1)]

\* an operand that must not be poison: s.getAndAddPoisonUB(*op)
operandUB(o) == instrUB("non-poison " \o o.name, o.non_poison)

\* what Pointer::isLocal, Pointer::isConstGlobal and ptr_only_args say of the
\* block a pointer is in
isLocal(p) == p.region = "local"
isConstGlobal(p) == p.region = "constglobal"
ptr_only_args(p) == p.region = "arg"

\* check_can_load that forgets the arg-memory-only attribute
check_can_load_noArgMem(f, p) ==
  IF "NoRead" \in f.attrs
  THEN {instrUB("can load " \o p.name, isLocal(p) \/ isConstGlobal(p))}
  ELSE {}

check_can_load(f, p) ==
  IF "NoRead" \in f.attrs
  THEN {instrUB("can load " \o p.name, isLocal(p) \/ isConstGlobal(p))}
  ELSE IF "ArgMemOnly" \in f.attrs
  THEN {instrUB("can load " \o p.name, isLocal(p) \/ ptr_only_args(p))}
  ELSE {}

check_can_store(f, p) ==
  IF f.init THEN {}
  ELSE IF "NoWrite" \in f.attrs
  THEN {instrUB("can store " \o p.name, isLocal(p))}
  ELSE IF "ArgMemOnly" \in f.attrs
  THEN {instrUB("can store " \o p.name, isLocal(p) \/ ptr_only_args(p))}
  ELSE {}

\* the UB conditions of Memcmp::toSMT; m.deref is what isDereferenceable
\* says of the two pointers
Memcmp_ub(m) ==
  {operandUB(m.num),
   instrUB("vnum != 0 => np1 && np2",
           (m.vnum # 0) => (m.ptr.non_poison /\ m.ptr2.non_poison))}
    \cup check_can_load(m.f, m.ptr) \cup check_can_load(m.f, m.ptr2)
    \cup {instrUB("p1.isDereferenceable(vnum)", m.deref),
          instrUB("p2.isDereferenceable(vnum)", m.deref)}

Memcmp_toSMT(m) ==
  LET l == encode(Memcmp_steps(m), TRUE, m.unroll_cnt)
  IN [sv |-> [value |-> IF m.vnum = 0 THEN zero32 ELSE l.val,
              non_poison |-> (m.vnum # 0) => l.np],
      ub |-> Memcmp_ub(m),
      pre |-> {[cond |-> "result_var != 0", lane |-> 0, holds |-> m.result_var # 0]}
                \cup l.pre,
      qvars |-> IF m.is_bcmp THEN {"bcmp_nonzero"} ELSE {"memcmp_nonzero", "memcmp"}]

\* memory contents of n bytes
RECURSIVE ByteSeqs(_)
ByteSeqs(n) ==
  IF n = 0 THEN {<<>>}
  ELSE {<<Bytes[b]>> \o t : b \in 1..Len(Bytes), t \in ByteSeqs(n - 1)}

\* the byte that follows b in Bytes
nextByte(b) ==
  LET i == CHOOSE j \in 1..Len(Bytes) : Bytes[j] = b
  IN Bytes[(i % Len(Bytes)) + 1]

\* what the second operand points to: the very same operand, or another
\* pointer whose bytes are those of the first or differ from them at one place
SecondOperands(mem1) ==
  {[same |-> TRUE, mem |-> mem1], [same |-> FALSE, mem |-> mem1]}
    \cup {[same |-> FALSE, mem |-> [mem1 EXCEPT ![j] = nextByte(mem1[j])]] :
            j \in 1..Len(mem1)}

\* memcmp / bcmp is encoded once
EncodeMemcmp ==
  /\ instr = NoInstr
  /\ \E mem1 \in ByteSeqs(MaxNum), vnum \in 0..MaxNum, numConst \in BOOLEAN,
        unroll_cnt \in 1..MaxMemcmpUnroll, is_bcmp \in BOOLEAN, ok \in BOOLEAN,
        rv \in 0..1 :
       \E o \in SecondOperands(mem1) :
         LET m == [kind |-> "Memcmp", mem1 |-> mem1, mem2 |-> o.mem, same |-> o.same,
                   vnum |-> vnum, numConst |-> numConst, unroll_cnt |-> unroll_cnt,
                   is_bcmp |-> is_bcmp,
                   f |-> [attrs |-> {}, init |-> FALSE],
                   num |-> [name |-> "num", non_poison |-> ok],
                   ptr |-> [name |-> "ptr1", non_poison |-> ok, region |-> "global"],
                   ptr2 |-> [name |-> "ptr2", non_poison |-> ok, region |-> "global"],
                   deref |-> ok,
                   result_var |-> rv, result_var_neg |-> 1 - rv]
             r == Memcmp_toSMT(m)
         IN /\ instr' = m
            /\ result' = r.sv
            /\ ub' = r.ub
            /\ pre' = r.pre
            /\ qvars' = r.qvars
            /\ UNCHANGED <<env, data, approx>>

NextMemcmp == EncodeMemcmp

SpecMemcmp == Init /\ [][NextMemcmp]_vars

(***************************************************************************)
(* Properties of Memcmp::toSMT                                             *)
(***************************************************************************)
IsMemcmp == instr.kind = "Memcmp"

\* C6: memcmp and bcmp called with the same pointer for both operands encode
\* the result value 0, for every length and every memory content, lengths
\* above the unroll bound included.
C6_SamePointerIsZero ==
  (IsMemcmp /\ instr.same) => result.value = zero32

\* a length above the unroll bound, over bytes that hold a poison byte and a
\* pointer byte
C6_Witness ==
  /\ IsMemcmp /\ instr.same /\ ~instr.is_bcmp
  /\ instr.vnum > instr.unroll_cnt
  /\ \E j \in 1..instr.vnum : instr.mem1[j].poison
  /\ \E j \in 1..instr.vnum : instr.mem1[j].isPtr
  /\ result.value = zero32
  /\ ~result.non_poison


(***************************************************************************)
(* UnaryOp                                                                 *)
(***************************************************************************)
RECURSIVE bitreverse(_, _)
bitreverse(v, w) ==
  IF w = 0 THEN 0 ELSE (v % 2) * Pow2(w - 1) + bitreverse(v \div 2, w - 1)
RECURSIVE ctpop(_)
ctpop(v) == IF v = 0 THEN 0 ELSE (v % 2) + ctpop(v \div 2)

\* the operations of UnaryOp that go through fn (bswap needs whole bytes)
UnaryOpOps == {"BitReverse", "Ctpop", "FFS"}

\* fn of UnaryOp::toSMT
UnaryOp_fn(op, v, np, w) ==
  CASE op = "BitReverse" -> [value |-> bitreverse(v, w), non_poison |-> np]
    [] op = "Ctpop" -> [value |-> ctpop(v), non_poison |-> np]
    [] op = "FFS" -> [value |-> bvadd(cttz(v, mkInt(-1, w), w), mkUInt(1, w), w),
                      non_poison |-> np]

RECURSIVE UnaryOp_lanes(_, _, _)
\* the lane loop of UnaryOp::toSMT: vals after the iterations i .. e - 1
UnaryOp_lanes(ins, i, vals) ==
  IF i = numElementsConst(ins.lty) THEN vals
  ELSE LET vi == extract(ins.lty, ins.a, i)
       IN UnaryOp_lanes(ins, i + 1,
            Append(vals, UnaryOp_fn(ins.op, vi.value, vi.non_poison,
                                    bits(getChild(ins.lty, i)))))

\* Copy returns the operand's value; IsConstant returns a one-bit value that
\* is never poison: one for a Constant operand, else the fresh quantified
\* variable "is.const"
UnaryOp_toSMT(ins) ==
  CASE ins.op = "Copy" -> [sv |-> ins.a, ub |-> {}, qvars |-> {}]
    [] ins.op = "IsConstant" ->
         IF ins.isConstant
         THEN [sv |-> [value |-> 1, non_poison |-> TRUE], ub |-> {}, qvars |-> {}]
         ELSE [sv |-> [value |-> ins.is_const, non_poison |-> TRUE], ub |-> {},
               qvars |-> {"is.const"}]
    [] OTHER ->
         IF isVectorType(ins.lty)
         THEN [sv |-> aggregateVals(ins.lty, UnaryOp_lanes(ins, 0, <<>>)),
               ub |-> {}, qvars |-> {}]
         ELSE [sv |-> UnaryOp_fn(ins.op, ins.a.value, ins.a.non_poison,
                                 bits(ins.lty)),
               ub |-> {}, qvars |-> {}]

\* encode a UnaryOp on a vector operand in a fresh state
EncodeUnaryOpVec ==
  /\ instr = NoInstr
  /\ \E op \in UnaryOpOps, k \in 1..MaxLanes :
       LET lty == VectorType(k, IntType(VBITS))
       IN \E la \in [1..k -> ScalarSVs(VBITS)] :
            LET ins == [kind |-> "UnaryOp", op |-> op, lty |-> lty,
                        a |-> aggregateVals(lty, la), la |-> la, lb |-> <<>>]
            IN Encoded(ins, UnaryOp_toSMT(ins))

(***************************************************************************)
(* X86IntrinBinOp: the vertical and the horizontal intrinsics on four      *)
(* 32-bit lanes.  shape_ret gives the lane count and the lane width of the *)
(* real instruction, which decide the grouping; lane values are modelled   *)
(* with VBITS bits.                                                        *)
(***************************************************************************)
X86Vertical == {"x86_ssse3_psign_d_128", "x86_avx2_psrlv_d", "x86_avx2_psrav_d",
                "x86_avx2_psllv_d"}
X86Horizontal == {"x86_ssse3_phadd_d_128", "x86_ssse3_phsub_d_128"}
shape_ret(op) == <<4, 32>>

\* fn of the vertical and of the horizontal intrinsics
X86_fn(op, a, b, bw) ==
  CASE op = "x86_ssse3_psign_d_128" ->
         IF b = 0 THEN b ELSE IF isNegative(b, bw) THEN bvsub(0, a, bw) ELSE a
    [] op = "x86_avx2_psrlv_d" -> IF b >= bw THEN 0 ELSE lshr(a, b, bw)
    [] op = "x86_avx2_psrav_d" ->
         IF b >= bw THEN (IF isNegative(a, bw) THEN mkInt(-1, bw) ELSE 0)
         ELSE ashr(a, b, bw)
    [] op = "x86_avx2_psllv_d" -> IF b >= bw THEN 0 ELSE shl(a, b, bw)
    [] op = "x86_ssse3_phadd_d_128" -> bvadd(a, b, bw)
    [] op = "x86_ssse3_phsub_d_128" -> bvsub(a, b, bw)

RECURSIVE X86_vertical(_, _, _)
\* the lane loop of the vertical intrinsics
X86_vertical(ins, i, vals) ==
  IF i = numElementsConst(ins.lty) THEN vals
  ELSE LET ai == extract(ins.lty, ins.a, i)
           bi == extract(ins.rty, ins.b, i)
       IN X86_vertical(ins, i + 1,
            Append(vals, [value |-> X86_fn(ins.op, ai.value, bi.value,
                                           bits(getChild(ins.lty, i))),
                          non_poison |-> ai.non_poison /\ bi.non_poison]))

\* one entry of the horizontal intrinsics: lanes n and n + 1 of the operand v
X86_pair(ins, v, n) ==
  LET x1 == extract(ins.lty, v, n)
      x2 == extract(ins.lty, v, n + 1)
  IN [value |-> X86_fn(ins.op, x1.value, x2.value, bits(getChild(ins.lty, n))),
      non_poison |-> x1.non_poison /\ x2.non_poison]

RECURSIVE X86_half(_, _, _, _, _)
\* the inner loops of the horizontal intrinsics: i runs over the group by 2
X86_half(ins, v, j, i, vals) ==
  LET groupsize == 128 \div shape_ret(ins.op)[2]
  IN IF i = groupsize THEN vals
     ELSE X86_half(ins, v, j, i + 2, Append(vals, X86_pair(ins, v, j * groupsize + i)))

RECURSIVE X86_horizontal(_, _, _)
\* the outer loop of the horizontal intrinsics, over the 128-bit groups
X86_horizontal(ins, j, vals) ==
  LET laneCount == shape_ret(ins.op)[1]
      groupsize == 128 \div shape_ret(ins.op)[2]
  IN IF j = laneCount \div groupsize THEN vals
     ELSE X86_horizontal(ins, j + 1,
            X86_half(ins, ins.b, j, 0, X86_half(ins, ins.a, j, 0, vals)))

X86IntrinBinOp_toSMT(ins) ==
  IF ins.op \in X86Vertical
  THEN [sv |-> aggregateVals(ins.lty, X86_vertical(ins, 0, <<>>)), ub |-> {}]
  ELSE [sv |-> aggregateVals(ins.lty, X86_horizontal(ins, 0, <<>>)), ub |-> {}]

\* lanes of the operands of the intrinsics: a poison lane and two values
LanesX(w) ==
  [value : {1, IntUMax(w)}, non_poison : {TRUE}]
  \cup {[value |-> 0, non_poison |-> FALSE]}

\* encode an x86 intrinsic in a fresh state
EncodeX86IntrinBinOp ==
  /\ instr = NoInstr
  /\ \E op \in X86Vertical \cup X86Horizontal :
       LET k == shape_ret(op)[1]
           lty == VectorType(k, IntType(VBITS))
       IN \E la \in [1..k -> LanesA(VBITS)], lb \in [1..k -> LanesX(VBITS)] :
            LET ins == [kind |-> "X86IntrinBinOp", op |-> op, lty |-> lty, rty |-> lty,
                        a |-> aggregateVals(lty, la), b |-> aggregateVals(lty, lb),
                        la |-> la, lb |-> lb]
            IN Encoded(ins, X86IntrinBinOp_toSMT(ins))

NextVector == EncodeBinOpVec \/ EncodeUnaryOpVec \/ EncodeX86IntrinBinOp

SpecVector == Init /\ [][NextVector]_vars


(***************************************************************************)
(* Properties of the vector encodings                                      *)
(***************************************************************************)
IsVectorInstr ==
  instr.kind \in {"BinOp", "UnaryOp", "X86IntrinBinOp"} /\ isVectorType(instr.lty)

IsHorizontal == instr.kind = "X86IntrinBinOp" /\ instr.op \in X86Horizontal

\* what extracting lane i (from 1) of the reassembled result yields; the two
\* results of an overflow-detecting BinOp come as a pair
ResultLane(i) ==
  IF instr.kind = "BinOp" /\ vertical_zip(instr.op)
  THEN LET retty == BinOp_retty(instr.op, instr.lty)
       IN <<extract(getChild(retty, 0), extract(retty, result, 0), i - 1),
            extract(getChild(retty, 1), extract(retty, result, 1), i - 1)>>
  ELSE extract(instr.lty, result, i - 1)

\* the scalar encoding of the instruction on the operand lanes x and y
ScalarEncoding(x, y) ==
  CASE instr.kind = "BinOp" ->
         LET r == BinOp_lane(instr, x, y, VBITS)
         IN IF vertical_zip(instr.op) THEN <<r.sv1, r.sv2>> ELSE r.sv
    [] instr.kind = "UnaryOp" ->
         UnaryOp_fn(instr.op, x.value, x.non_poison, VBITS)
    [] instr.kind = "X86IntrinBinOp" ->
         [value |-> X86_fn(instr.op, x.value, y.value, VBITS),
          non_poison |-> x.non_poison /\ y.non_poison]

\* lane i of the second operand, where the instruction has one
SecondLane(i) ==
  IF instr.kind = "UnaryOp" THEN NoValue
  ELSE IF instr.kind = "BinOp" THEN LaneB(i)
  ELSE instr.lb[i]

\* C8 as stated: every vector instruction over k lanes is k independent
\* scalar encodings, lane i of the result being the scalar encoding of lane i
\* of each vector operand.
C8_AsStated ==
  IsVectorInstr =>
    \A i \in Lanes : ResultLane(i) = ScalarEncoding(LaneA(i), SecondLane(i))

\* the lanes that entry n (from 0) of a horizontal intrinsic combines: two
\* adjacent lanes of the first operand in the first half of each group of four,
\* of the second operand in the second half
HorizontalPair(n) ==
  LET j == n \div 4
      r == n % 4
      x == IF r < 2 THEN instr.la ELSE instr.lb
      first == 4 * j + 2 * (r % 2) + 1
  IN <<x[first], x[first + 1]>>

\* C8 amended: a vector BinOp, a vector UnaryOp and a vertical x86 intrinsic
\* over k lanes are k independent scalar encodings, lane i of the result being
\* the scalar encoding of lane i of each vector operand; a horizontal x86
\* intrinsic (phadd, phsub) is k scalar encodings too, but entry n of its
\* result combines two adjacent lanes of one and the same operand.
C8_LaneWise ==
  IsVectorInstr =>
    \A i \in Lanes :
      ResultLane(i) =
        IF IsHorizontal
        THEN ScalarEncoding(HorizontalPair(i - 1)[1], HorizontalPair(i - 1)[2])
        ELSE ScalarEncoding(LaneA(i), SecondLane(i))

\* a horizontal add whose first result lane is poison through lane 1 of the
\* first operand alone, and whose third result lane adds lanes 0 and 1 of the
\* second operand
C8_Witness ==
  /\ IsHorizontal /\ instr.op = "x86_ssse3_phadd_d_128"
  /\ instr.la[1].non_poison /\ ~instr.la[2].non_poison
  /\ \A i \in Lanes : instr.lb[i].non_poison
  /\ ~ResultLane(1).non_poison
  /\ instr.lb[1].value = 1 /\ instr.lb[2].value = 1 /\ instr.lb[3].value = IntUMax(VBITS)
  /\ ResultLane(3) = [value |-> 2, non_poison |-> TRUE]


(***************************************************************************)
(* Floating-point algebra (smt::expr), on a small IEEE format: the finite  *)
(* magnitudes are 0, the subnormal 1, and the normals 2, 3, 4 and 6, in    *)
(* units of the subnormal (1.0 is 2 units); anything from 8 units on       *)
(* overflows.                                                              *)
(***************************************************************************)
FP(cls, sign, mag) == [cls |-> cls, sign |-> sign, mag |-> mag]
fpNaN == FP("nan", 0, 0)
fpInf(sign) == FP("inf", sign, 0)
fpFin(sign, mag) == FP("fin", sign, mag)
fpZero(sign) == fpFin(sign, 0)
fpGrid == {0, 1, 2, 3, 4, 6}
fpEven == {0, 2, 4, 8}
fpOverflow == 8
fpMax == 6

isNaN(v) == v.cls = "nan"
isInf(v) == v.cls = "inf"
isFPZero(v) == v.cls = "fin" /\ v.mag = 0
isFPSubNormal(v) == v.cls = "fin" /\ v.mag = 1
isFPNegative(v) == v.cls # "nan" /\ v.sign = 1
fneg(v) == IF isNaN(v) THEN v ELSE [v EXCEPT !.sign = 1 - v.sign]

FpRoundingModes == <<"RNE", "RNA", "RTP", "RTN", "RTZ">>

\* away from zero, or toward zero, for a value strictly between two
\* neighbours lo < hi of the format; n / d is the magnitude
roundsUp(sign, n, d, lo, hi, rm) ==
  CASE rm = "RNE" -> 2 * n > (lo + hi) * d \/ (2 * n = (lo + hi) * d /\ hi \in fpEven)
    [] rm = "RNA" -> 2 * n >= (lo + hi) * d
    [] rm = "RTP" -> sign = 0
    [] rm = "RTN" -> sign = 1
    [] rm = "RTZ" -> FALSE

\* the value of the format that the real (-1)^sign * n / d rounds to
fpRound(sign, n, d, rm) ==
  IF n >= fpOverflow * d
  THEN IF rm \in {"RNE", "RNA"} \/ (rm = "RTP" /\ sign = 0) \/ (rm = "RTN" /\ sign = 1)
       THEN fpInf(sign) ELSE fpFin(sign, fpMax)
  ELSE LET lo == CHOOSE g \in fpGrid :
                   g * d <= n /\ \A h \in fpGrid : h * d <= n => h <= g
           hi == CHOOSE g \in fpGrid \cup {fpOverflow} :
                   g * d >= n /\ \A h \in fpGrid \cup {fpOverflow} : h * d >= n => h >= g
           r == IF lo = hi THEN lo
                ELSE IF roundsUp(sign, n, d, lo, hi, rm) THEN hi ELSE lo
       IN IF r = fpOverflow THEN fpInf(sign) ELSE fpFin(sign, r)

\* the signed number of units of a finite value
fpUnits(v) == IF v.sign = 1 THEN 0 - v.mag ELSE v.mag

fadd(a, b, rm) ==
  IF isNaN(a) \/ isNaN(b) \/ (isInf(a) /\ isInf(b) /\ a.sign # b.sign) THEN fpNaN
  ELSE IF isInf(a) THEN a
  ELSE IF isInf(b) THEN b
  ELSE LET sum == fpUnits(a) + fpUnits(b)
       IN IF sum = 0
          THEN IF a.sign = b.sign THEN fpZero(a.sign)
               ELSE fpZero(IF rm = "RTN" THEN 1 ELSE 0)
          ELSE fpRound(IF sum < 0 THEN 1 ELSE 0, IF sum < 0 THEN 0 - sum ELSE sum, 1, rm)

fsub(a, b, rm) == fadd(a, fneg(b), rm)

fmul(a, b, rm) ==
  LET sign == (a.sign + b.sign) % 2
  IN IF isNaN(a) \/ isNaN(b) \/ (isInf(a) /\ isFPZero(b)) \/ (isFPZero(a) /\ isInf(b))
     THEN fpNaN
     ELSE IF isInf(a) \/ isInf(b) THEN fpInf(sign)
     ELSE fpRound(sign, a.mag * b.mag, 2, rm)

fdiv(a, b, rm) ==
  LET sign == (a.sign + b.sign) % 2
  IN IF isNaN(a) \/ isNaN(b) \/ (isInf(a) /\ isInf(b)) \/ (isFPZero(a) /\ isFPZero(b))
     THEN fpNaN
     ELSE IF isInf(a) \/ isFPZero(b) THEN fpInf(sign)
     ELSE IF isInf(b) THEN fpZero(sign)
     ELSE fpRound(sign, 2 * a.mag, b.mag, rm)

\* ordered comparisons: false on NaN, and the two zeros are equal
fpOrder(v) == IF isInf(v) THEN (IF v.sign = 1 THEN 0 - fpOverflow ELSE fpOverflow)
              ELSE fpUnits(v)
fole(a, b) == ~isNaN(a) /\ ~isNaN(b) /\ fpOrder(a) <= fpOrder(b)
foge(a, b) == ~isNaN(a) /\ ~isNaN(b) /\ fpOrder(a) >= fpOrder(b)


(***************************************************************************)
(* FpBinOp, with the fast-math pipeline fm_poison and round_value.         *)
(* The operands are expressions that are not literals.  ins.anyzero,       *)
(* ins.ndet and ins.uf are the values that the valuation gives to the      *)
(* fresh "anyzero" variables, to "maxminnondet" and to the uninterpreted   *)
(* functions; ins.ambient is the value of the rounding-mode register.      *)
(***************************************************************************)
FpBinOpOps == {"FAdd", "FSub", "FMul", "FDiv", "FRem", "FMax", "FMin",
               "FMaximum", "FMinimum", "CopySign"}

\* any_fp_zero that leaves the sign of a zero alone
any_fp_zero_keepsSign(v, var) == v

\* any_fp_zero: a zero becomes a zero of the sign the fresh variable chooses
\* (an operand that is not a literal is never known not to be a zero, and is
\* not itself the outcome of an earlier rewrite)

any_fp_zero(v, var) == IF var /\ isFPZero(v) THEN fneg(v) ELSE v

handle_subnormal(attr, v) ==
  CASE attr = "IEEE" -> v
    [] attr = "PositiveZero" -> IF isFPSubNormal(v) THEN fpZero(0) ELSE v
    [] attr = "PreserveSign" ->
         IF isFPSubNormal(v) THEN (IF isFPNegative(v) THEN fpZero(1) ELSE fpZero(0))
         ELSE v

\* fn of FpBinOp::toSMT
FpBinOp_fn(ins, a, b, rm) ==
  CASE ins.op = "FAdd" -> fadd(a, b, rm)
    [] ins.op = "FSub" -> fsub(a, b, rm)
    [] ins.op = "FMul" -> fmul(a, b, rm)
    [] ins.op = "FDiv" -> fdiv(a, b, rm)
    [] ins.op = "FRem" -> ins.uf
    [] ins.op \in {"FMin", "FMax"} ->
         LET ndz == IF ins.ndet THEN fpZero(0) ELSE fpZero(1)
             cmp == IF ins.op = "FMin" THEN fole(a, b) ELSE foge(a, b)
         IN IF isNaN(a) THEN b
            ELSE IF isNaN(b) THEN a
            ELSE IF isFPZero(a) /\ isFPZero(b) THEN ndz
            ELSE IF cmp THEN a ELSE b
    [] ins.op \in {"FMinimum", "FMaximum"} ->
         LET cmp == IF ins.op = "FMinimum" THEN fole(a, b) ELSE foge(a, b)
             neg_cond == IF ins.op = "FMinimum"
                         THEN isFPNegative(a) \/ isFPNegative(b)
                         ELSE isFPNegative(a) /\ isFPNegative(b)
             e == IF isFPZero(a) /\ isFPZero(b)
                  THEN (IF neg_cond THEN fpZero(1) ELSE fpZero(0))
                  ELSE IF cmp THEN a ELSE b
         IN IF isNaN(a) THEN a ELSE IF isNaN(b) THEN b ELSE e
    [] ins.op = "CopySign" ->
         IF isFPNegative(a) = isFPNegative(b) THEN a ELSE fneg(a)

\* the variables and the approximations that fn itself introduces
FpBinOp_fnVars(op) == IF op \in {"FMin", "FMax"} THEN {"maxminnondet"} ELSE {}
FpBinOp_fnApprox(op) == IF op = "FRem" THEN {"frem"} ELSE {}

ApproxFlags == {"ARCP", "Contract", "Reassoc", "AFN"}

\* approxNames without the reassociation
approxNames_noReassoc(fmath) ==
  {IF f = "ARCP" THEN "arcp" ELSE IF f = "Contract" THEN "contract" ELSE "afn" :
     f \in (fmath \cap ApproxFlags) \ {"Reassoc"}}

\* the names of the approximations the fast-math flags record
approxNames(fmath) ==
  {IF f = "ARCP" THEN "arcp"
   ELSE IF f = "Contract" THEN "contract"
   ELSE IF f = "Reassoc" THEN "reassoc" ELSE "afn" : f \in fmath \cap ApproxFlags}

\* the second half of fm_poison: val is what fn returned
fm_poison_val(ins, rm, only_input, val) ==
  LET nsz == "NSZ" \in ins.fmath
      a == ins.a.value
      b == ins.b.value
      uval == IF ins.fmath \cap ApproxFlags # {} THEN ins.uf ELSE val
      nnan == "NNaN" \in ins.fmath =>
                (~isNaN(a) /\ ~isNaN(b) /\ (~only_input => ~isNaN(val)))
      ninf == "NInf" \in ins.fmath =>
                (~isInf(a) /\ ~isInf(b) /\ (~only_input => ~isInf(val)))
  IN [sv |-> [value |-> IF nsz /\ ~only_input
                        THEN any_fp_zero(uval, ins.anyzero[3]) ELSE uval,
              non_poison |-> ins.a.non_poison /\ ins.b.non_poison /\ nnan /\ ninf],
      qvars |-> {<<rm, x>> : x \in (IF nsz THEN {"anyzero_a", "anyzero_b"} ELSE {})
                                     \cup (IF nsz /\ ~only_input THEN {"anyzero"} ELSE {})
                                     \cup FpBinOp_fnVars(ins.op)},
      approx |-> FpBinOp_fnApprox(ins.op) \cup approxNames(ins.fmath)]

\* the operands of fn: rewritten for NoSignedZero, then flushed
fm_poison_operand(ins, v, var, flush_denormal) ==
  IF flush_denormal
  THEN handle_subnormal(ins.den_in,
                        IF "NSZ" \in ins.fmath THEN any_fp_zero(v, var) ELSE v)
  ELSE IF "NSZ" \in ins.fmath THEN any_fp_zero(v, var) ELSE v

\* fm_poison with two operands, at the rounding mode rm
fm_poison(ins, rm, only_input, flush_denormal) ==
  fm_poison_val(ins, rm, only_input,
    FpBinOp_fn(ins,
               fm_poison_operand(ins, ins.a.value, ins.anyzero[1], flush_denormal),
               fm_poison_operand(ins, ins.b.value, ins.anyzero[2], flush_denormal),
               rm))

\* the variables of the evaluations that the dynamic mode does not select
otherVars(r, ins) ==
  [r EXCEPT !.qvars = {<<FpRoundingModes[m], x[2]>> :
                         m \in 1..Len(FpRoundingModes), x \in r.qvars}]

\* the result of a fixed mode is poison unless the register holds that mode
fixedMode(r, ins) ==
  [r EXCEPT !.sv.non_poison = r.sv.non_poison /\ ins.ambient = ins.rm]

\* a selection that falls back to RNE
dynamicMode_nearest(ambient) ==
  IF ambient \in {"RNA", "RTP", "RTN", "RTZ"} THEN ambient ELSE "RNE"

\* the mode the nested conditionals of round_value_ select
dynamicMode(ambient) ==
  IF ambient \in {"RNE", "RNA", "RTP", "RTN"} THEN ambient ELSE "RTZ"

round_value_(ins, only_input, flush_denormal) ==
  IF ins.rm = "default" THEN fm_poison(ins, "RNE", only_input, flush_denormal)
  ELSE IF ins.rm # "dynamic"
  THEN fixedMode(fm_poison(ins, ins.rm, only_input, flush_denormal), ins)
  ELSE otherVars(fm_poison(ins, dynamicMode(ins.ambient), only_input, flush_denormal),
                 ins)

\* the flush of a subnormal result
flushed(r, ins, flush_denormal) ==
  IF flush_denormal
  THEN [r EXCEPT !.sv.value = handle_subnormal(ins.den_out, r.sv.value)]
  ELSE r

round_value(ins, only_input, flush_denormal) ==
  flushed(round_value_(ins, only_input, flush_denormal), ins, flush_denormal)

\* FpBinOp::toSMT on scalar operands
FpBinOp_toSMT(ins) == round_value(ins, ins.op = "CopySign", ins.op # "CopySign")


\* operand values: the two zeros, a subnormal, -1.0, an infinity and NaN
FpSample == {fpZero(0), fpZero(1), fpFin(0, 1), fpFin(1, 2), fpInf(0), fpNaN}
\* which operand is poison, if any
FpPoison == {<<TRUE, TRUE>>, <<FALSE, TRUE>>}
FMathSets == {{}, {"NSZ"}, {"NSZ", "NNaN", "NInf"}, {"NSZ", "AFN"}}
\* the rounding mode of the instruction and the value of the register
FpRoundings ==
  {[rm |-> "default", ambient |-> "RNE"], [rm |-> "RTN", ambient |-> "RNE"],
   [rm |-> "RTN", ambient |-> "RTN"], [rm |-> "dynamic", ambient |-> "RTP"]}
\* the denormal attributes of the function: input and output mode
FpDenormals == {<<"IEEE", "IEEE">>, <<"PreserveSign", "PositiveZero">>}
\* values the uninterpreted functions may take
FpUF == {fpZero(0), fpZero(1), fpNaN}
AnyZeros == [1..3 -> BOOLEAN]

\* the state after a floating-point instruction was encoded
EncodedFpAs(ins, res) ==
  /\ instr' = ins
  /\ result' = res.sv
  /\ qvars' = res.qvars
  /\ approx' = res.approx
  /\ UNCHANGED <<ub, pre, env, data>>

EncodedFp(ins) == EncodedFpAs(ins, FpBinOp_toSMT(ins))

\* encode an FpBinOp on scalar operands in a fresh state
EncodeFpBinOp ==
  /\ instr = NoInstr
  /\ \E op \in FpBinOpOps, fmath \in FMathSets, a \in FpSample, b \in FpSample,
        np \in FpPoison, r \in FpRoundings, den \in FpDenormals :
       \E z \in IF "NSZ" \in fmath THEN AnyZeros ELSE {[i \in 1..3 |-> FALSE]},
          ndet \in IF op \in {"FMin", "FMax"} THEN BOOLEAN ELSE {FALSE},
          uf \in IF op = "FRem" \/ fmath \cap ApproxFlags # {} THEN FpUF ELSE {fpZero(0)} :
         EncodedFp([kind |-> "FpBinOp", op |-> op, fmath |-> fmath,
                    a |-> [value |-> a, non_poison |-> np[1]],
                    b |-> [value |-> b, non_poison |-> np[2]],
                    rm |-> r.rm, ambient |-> r.ambient,
                    den_in |-> den[1], den_out |-> den[2],
                    anyzero |-> z, ndet |-> ndet, uf |-> uf])

NextFp == EncodeFpBinOp

SpecFp == Init /\ [][NextFp]_vars

(***************************************************************************)
(* Properties of the NoSignedZero rewrite                                  *)
(***************************************************************************)
IsFpBinOp == instr.kind = "FpBinOp"

\* NoSignedZero is set and both inputs are zeros, of either sign
NszOnZeros ==
  /\ IsFpBinOp /\ "NSZ" \in instr.fmath
  /\ isFPZero(instr.a.value) /\ isFPZero(instr.b.value)

\* the result values the encoding admits, over the values of the fresh
\* variables and of the uninterpreted functions
NszOutcomes ==
  {FpBinOp_toSMT([instr EXCEPT !.anyzero = z, !.ndet = n, !.uf = u]).sv.value :
     z \in AnyZeros, n \in BOOLEAN, u \in FpUF}

\* the encoding of the same instruction without NoSignedZero
WithoutNsz == FpBinOp_toSMT([instr EXCEPT !.fmath = instr.fmath \ {"NSZ"}])

\* an fdiv whose value no approximating flag makes uninterpreted
ExactFDiv == instr.op = "FDiv" /\ instr.fmath \cap ApproxFlags = {}

FloatType(w) == [kind |-> "float", bits |-> w]
PtrType(w) == [kind |-> "ptr", bits |-> w]
isPtrType(ty) == ty.kind = "ptr"

mkBV(w, v) == [sort |-> "bv", w |-> w, v |-> v % Pow2(w)]
bv_concat(a, b) == [sort |-> "bv", w |-> a.w + b.w, v |-> a.v * Pow2(b.w) + b.v]
bv_extract(e, high, low) ==
  [sort |-> "bv", w |-> high - low + 1,
   v |-> (e.v \div Pow2(low)) % Pow2(high - low + 1)]

\* Type::fromInt on a value: a float type reads the bits as a float
fromInt(ty, e) ==
  IF ty.kind = "float" THEN [sort |-> "fp", w |-> e.w, v |-> e.v] ELSE e

\* element i (counted from 0) of a vector StateValue
vectorElem(ty, sv, i) ==
  LET n == numElementsConst(ty)
      lo == bitsUpTo(ty, i + 1)
  IN [value |-> fromInt(getChild(ty, i),
                        bv_extract(sv.value, lo + bits(getChild(ty, i)) - 1, lo)),
      non_poison |-> bv_extract(sv.non_poison, n - i - 1, n - i - 1).v = 1]

\* Type::toInt on a scalar StateValue: the bits of the value, and one
\* non_poison bit per bit of the value
scalar_toInt(ty, sv) ==
  [value |-> [sort |-> "bv", w |-> sv.value.w, v |-> sv.value.v],
   non_poison |-> mkBV(bits(ty), IF sv.non_poison THEN Pow2(bits(ty)) - 1 ELSE 0)]

RECURSIVE vector_toInt(_, _, _)
\* AggregateType::toInt: the concatenation of the first n elements' toInt
vector_toInt(ty, sv, n) ==
  LET e == scalar_toInt(getChild(ty, n - 1), vectorElem(ty, sv, n - 1))
  IN IF n = 1 THEN e
     ELSE LET front == vector_toInt(ty, sv, n - 1)
          IN [value |-> bv_concat(front.value, e.value),
              non_poison |-> bv_concat(front.non_poison, e.non_poison)]

toInt(ty, sv) ==
  IF isVectorType(ty) THEN vector_toInt(ty, sv, numElementsConst(ty))
  ELSE scalar_toInt(ty, sv)

\* the NOP case: the result is a vector of pointers
BitCast_isNop(to) == isVectorType(to) /\ isPtrType(getChild(to, 0))

\* elem_ty read as the whole result's width
BitCast_elem_ty_whole(retty) == IntType(bits(retty))

\* elem_ty: an integer as wide as an element of the result
BitCast_elem_ty(retty) == IntType(bits(retty) \div numElementsConst(retty))

\* int_ty: an integer vector aligned with the elements of the result
BitCast_int_ty(retty) == VectorType(numElementsConst(retty), BitCast_elem_ty(retty))

\* valty->extract(v, idx) on the integer form of the operand
BitCast_extract(valty, v, idx) ==
  LET w == bits(getChild(valty, idx))
      lo == bitsUpTo(valty, idx + 1)
  IN [value |-> bv_extract(v.value, lo + w - 1, lo),
      non_poison |-> bv_extract(v.non_poison, lo + w - 1, lo)]

RECURSIVE BitCast_vals(_, _, _, _, _)
\* the element loop: vals after the iterations i .. elems - 1
BitCast_vals(retty, v, little_endian, i, vals) ==
  LET elems == numElementsConst(retty)
      idx == IF little_endian THEN elems - i - 1 ELSE i
      vi == BitCast_extract(BitCast_int_ty(retty), v, idx)
  IN IF i = elems THEN vals
     ELSE BitCast_vals(retty, v, little_endian, i + 1,
            Append(vals, [value |-> fromInt(getChild(retty, idx), vi.value),
                          non_poison |-> vi.non_poison]))

RECURSIVE BitCast_aggregateVals(_, _)
\* retty->aggregateVals(vals): an element is not poison when none of its
\* bits is
BitCast_aggregateVals(vals, n) ==
  LET e == vals[n]
      val == [sort |-> "bv", w |-> e.value.w, v |-> e.value.v]
      np == mkBV(1, IF e.non_poison.v = Pow2(e.non_poison.w) - 1 THEN 1 ELSE 0)
  IN IF n = 1 THEN [value |-> val, non_poison |-> np]
     ELSE LET front == BitCast_aggregateVals(vals, n - 1)
          IN [value |-> bv_concat(front.value, val),
              non_poison |-> bv_concat(front.non_poison, np)]

\* ConversionOp::toSMT for op = BitCast
BitCast_toSMT(ins) ==
  LET v == toInt(ins.from, ins.v)
  IN IF BitCast_isNop(ins.to) THEN [sv |-> ins.v, ub |-> {}]
     ELSE IF isVectorType(ins.to)
     THEN [sv |-> BitCast_aggregateVals(
                    BitCast_vals(ins.to, v, ins.little_endian, 0, <<>>),
                    numElementsConst(ins.to)),
           ub |-> {}]
     ELSE [sv |-> [value |-> fromInt(ins.to, v.value),
                   non_poison |-> v.non_poison.v = Pow2(v.non_poison.w) - 1],
           ub |-> {}]

\* a pointer, or a vector of pointers
enforcePtrOrVectorType(ty) ==
  IF isVectorType(ty) THEN isPtrType(getChild(ty, 0)) ELSE isPtrType(ty)

\* ConversionOp::getTypeConstraints for op = BitCast
BitCast_getTypeConstraints(to, from) ==
  /\ enforcePtrOrVectorType(to) = enforcePtrOrVectorType(from)
  /\ bits(to) = bits(from)

\* the types of the operand and of the result
CastScalars == {IntType(VBITS), IntType(2 * VBITS), FloatType(2 * VBITS),
                PtrType(2 * VBITS)}
CastTypes == CastScalars \cup
             {VectorType(k, ty) : k \in 1..MaxLanes, ty \in CastScalars}

\* sampled StateValues of a scalar type
CastSVs(ty) ==
  {[value |-> fromInt(ty, mkBV(bits(ty), x)), non_poison |-> np] :
     x \in {0, 1, Pow2(bits(ty) - 1) + 1, Pow2(bits(ty)) - 1}, np \in BOOLEAN}

RECURSIVE CastOperand(_, _, _)
\* the vector StateValue of the first n elements la
CastOperand(ty, la, n) ==
  LET e == [value |-> [sort |-> "bv", w |-> la[n].value.w, v |-> la[n].value.v],
            non_poison |-> mkBV(1, IF la[n].non_poison THEN 1 ELSE 0)]
  IN IF n = 1 THEN e
     ELSE LET front == CastOperand(ty, la, n - 1)
          IN [value |-> bv_concat(front.value, e.value),
              non_poison |-> bv_concat(front.non_poison, e.non_poison)]

\* encode a BitCast of a well-typed operand in a fresh state
EncodeBitCast ==
  /\ instr = NoInstr
  /\ \E from \in CastTypes, to \in CastTypes, le \in BOOLEAN :
       /\ BitCast_getTypeConstraints(to, from)
       /\ IF isVectorType(from)
          THEN \E la \in [1..numElementsConst(from) -> CastSVs(getChild(from, 0))] :
                 LET ins == [kind |-> "BitCast", from |-> from, to |-> to,
                             little_endian |-> le,
                             v |-> CastOperand(from, la, numElementsConst(from))]
                 IN Encoded(ins, BitCast_toSMT(ins))
          ELSE \E sv \in CastSVs(from) :
                 LET ins == [kind |-> "BitCast", from |-> from, to |-> to,
                             little_endian |-> le, v |-> sv]
                 IN Encoded(ins, BitCast_toSMT(ins))

NextCast == EncodeBitCast

SpecCast == Init /\ [][NextCast]_vars

(***************************************************************************)
(* Properties of BitCast                                                   *)
(***************************************************************************)
IsBitCast == instr.kind = "BitCast"

\* a vector of pointers
IsPtrVector(ty) == isVectorType(ty) /\ isPtrType(getChild(ty, 0))

\* C10: a BitCast between vectors of pointers returns its operand's
\* StateValue unchanged, value and non-poison predicate; every other BitCast
\* gives a result of as many bits as its operand, the bits of its type.
C10_BitCastWidth ==
  IsBitCast =>
    IF IsPtrVector(instr.from) /\ IsPtrVector(instr.to)
    THEN result = instr.v
    ELSE /\ result.value.w = instr.v.value.w
         /\ result.value.w = bits(instr.to)

\* two integer elements cast to one float as wide as both, the first
\* element in its high bits
C10_Witness ==
  /\ IsBitCast
  /\ instr.from = VectorType(2, IntType(VBITS))
  /\ instr.to = FloatType(2 * VBITS)
  /\ instr.v.value = mkBV(2 * VBITS, Pow2(VBITS) + 1)
  /\ result.value = [sort |-> "fp", w |-> 2 * VBITS, v |-> Pow2(VBITS) + 1]
  /\ result.non_poison

(***************************************************************************)
(* The memory-accessing instructions.  A pointer operand is                *)
(* [name, non_poison, region]; the function is [attrs, init], init being   *)
(* State::isInitializationPhase.  What Memory itself adds to the UB set is *)
(* the one condition "memory", which holds when ins.memOk.                 *)
(***************************************************************************)
\* the StateValue of an encoding that stopped at an UNREACHABLE()
Aborted == [aborted |-> TRUE]
\* the empty StateValue an instruction without a result returns
VoidValue == [value |-> "void", non_poison |-> TRUE]

memoryUB(ins) == instrUB("memory", ins.memOk)

\* what a toSMT leaves: its return value, the UB conditions, the
\* preconditions and the approximations it added
MemResult(sv, ubs, pres, approxs) ==
  [sv |-> sv, ub |-> ubs, pre |-> pres, approx |-> approxs]

Load_toSMT(ins) ==
  MemResult(ins.loaded,
            {operandUB(ins.ptr)} \cup check_can_load(ins.f, ins.ptr)
              \cup {memoryUB(ins)},
            {}, {})

Store_toSMT(ins) ==
  IF ins.f.init /\ ins.large
  THEN MemResult(VoidValue, {}, {}, {"Large constant initializer removed"})
  ELSE MemResult(VoidValue,
                 {operandUB(ins.ptr)} \cup check_can_store(ins.f, ins.ptr)
                   \cup {memoryUB(ins)},
                 {}, {})

\* vbytes.isUInt(n) && n > 0
isPositiveConst(bytes) == bytes.const /\ bytes.val > 0

\* a memset that asks for the pointer only when the length is not 0
Memset_toSMT_lenient(ins) ==
  MemResult(VoidValue,
            {operandUB(ins.bytes)}
              \cup (IF isPositiveConst(ins.bytes) THEN {operandUB(ins.ptr)}
                    ELSE {instrUB("sv_ptr.non_poison",
                                  (ins.bytes.val # 0) => ins.ptr.non_poison),
                          instrUB("vbytes != 0 => ptr == ptr2", TRUE)})
              \cup check_can_store(ins.f, ins.ptr) \cup {memoryUB(ins)},
            {}, {})

Memset_toSMT(ins) ==
  MemResult(VoidValue,
            {operandUB(ins.bytes)}
              \cup (IF isPositiveConst(ins.bytes) THEN {operandUB(ins.ptr)}
                    ELSE {instrUB("sv_ptr.non_poison", ins.ptr.non_poison),
                          instrUB("vbytes != 0 => ptr == ptr2", TRUE)})
              \cup check_can_store(ins.f, ins.ptr) \cup {memoryUB(ins)},
            {}, {})

MemsetPattern_toSMT(ins) ==
  MemResult(VoidValue,
            {operandUB(ins.ptr), operandUB(ins.ptr2), operandUB(ins.bytes)}
              \cup check_can_store(ins.f, ins.ptr)
              \cup check_can_load(ins.f, ins.ptr2) \cup {memoryUB(ins)},
            {}, {})

FillPoison_toSMT(ins) == MemResult(VoidValue, {operandUB(ins.ptr)}, {}, {})

\* one pointer operand of Memcpy::toSMT
Memcpy_operandUB(ins, p, aligned) ==
  IF aligned \/ isPositiveConst(ins.bytes) THEN operandUB(p)
  ELSE instrUB("vbytes != 0 => " \o p.name \o ".non_poison",
               (ins.bytes.val # 0) => p.non_poison)

\* ins.ptr is dst and ins.ptr2 is src
Memcpy_toSMT(ins) ==
  MemResult(VoidValue,
            {operandUB(ins.bytes),
             Memcpy_operandUB(ins, ins.ptr, ins.align_dst),
             Memcpy_operandUB(ins, ins.ptr2, ins.align_src)}
              \cup check_can_load(ins.f, ins.ptr2)
              \cup check_can_store(ins.f, ins.ptr) \cup {memoryUB(ins)},
            {}, {})

\* the step function of Strlen::toSMT at iteration i, over the bytes
\* ins.mem of the block; a load past them is UB
Strlen_ith_exec(ins, i) ==
  IF i < Len(ins.mem)
  THEN LET val == ins.mem[i + 1]
       IN StepOutcome(i, TRUE, mkExpr(ins.memConst, ~val.poison),
                      mkExpr(ins.memConst, val.v # 0))
  ELSE StepOutcome(i, TRUE, mkExpr(ins.memConst, FALSE),
                   mkExpr(ins.memConst, FALSE))

Strlen_toSMT(ins) ==
  LET l == encode([i \in 1..(MaxNum + 1) |-> Strlen_ith_exec(ins, i - 1)],
                  TRUE, ins.unroll_cnt)
  IN MemResult([value |-> l.val, non_poison |-> TRUE],
               {operandUB(ins.ptr)} \cup check_can_load(ins.f, ins.ptr)
                 \cup {instrUB("loop", l.ub)},
               l.pre, {})

StartLifetime_toSMT(ins) ==
  MemResult(VoidValue, {operandUB(ins.ptr), memoryUB(ins)}, {}, {})

EndLifetime_toSMT(ins) ==
  MemResult(VoidValue, {operandUB(ins.ptr), memoryUB(ins)}, {}, {})

\* the memory part of Memcmp::toSMT, its scan left to Memcmp_toSMT
MemcmpAccess_toSMT(ins) ==
  LET r == Memcmp_toSMT(ins)
  IN MemResult(r.sv, r.ub, r.pre, {})

\* Instr::toSMT of a memory-accessing instruction
MemInstr_toSMT(ins) ==
  CASE ins.kind = "Load" -> Load_toSMT(ins)
    [] ins.kind = "Store" -> Store_toSMT(ins)
    [] ins.kind = "Memset" -> Memset_toSMT(ins)
    [] ins.kind = "MemsetPattern" -> MemsetPattern_toSMT(ins)
    [] ins.kind = "FillPoison" -> FillPoison_toSMT(ins)
    [] ins.kind = "Memcpy" -> Memcpy_toSMT(ins)
    [] ins.kind = "Memcmp" -> MemcmpAccess_toSMT(ins)
    [] ins.kind = "Strlen" -> Strlen_toSMT(ins)
    [] ins.kind = "StartLifetime" -> StartLifetime_toSMT(ins)
    [] ins.kind = "EndLifetime" -> EndLifetime_toSMT(ins)

\* inputs
FnAttrs == SUBSET {"NoRead", "NoWrite", "ArgMemOnly"}
Fns == {[attrs |-> a, init |-> i] : a \in FnAttrs, i \in BOOLEAN}
Regions == {"local", "constglobal", "arg", "global"}
PtrOperands(name) ==
  {[name |-> name, non_poison |-> np, region |-> r] : np \in BOOLEAN, r \in Regions}
BytesOperands ==
  {[name |-> "bytes", non_poison |-> np, const |-> c, val |-> v] :
     np \in BOOLEAN, c \in BOOLEAN, v \in 0..1}

\* the state after a memory-accessing instruction was encoded
EncodedMem(ins) ==
  LET r == MemInstr_toSMT(ins)
  IN /\ instr' = ins
     /\ result' = r.sv
     /\ ub' = r.ub
     /\ pre' = r.pre
     /\ approx' = r.approx
     /\ UNCHANGED <<qvars, env, data>>

\* an instruction with one pointer operand
OnePtr(kind, f, p, memOk) ==
  [kind |-> kind, f |-> f, ptr |-> p, memOk |-> memOk]

EncodeLoad ==
  /\ instr = NoInstr
  /\ \E f \in Fns, p \in PtrOperands("ptr"), memOk \in BOOLEAN, np \in BOOLEAN :
       EncodedMem(OnePtr("Load", f, p, memOk) @@
                    [loaded |-> [value |-> 1, non_poison |-> np]])

EncodeStore ==
  /\ instr = NoInstr
  /\ \E f \in Fns, p \in PtrOperands("ptr"), memOk \in BOOLEAN, large \in BOOLEAN :
       EncodedMem(OnePtr("Store", f, p, memOk) @@ [large |-> large])

EncodeMemset ==
  /\ instr = NoInstr
  /\ \E f \in Fns, p \in PtrOperands("ptr"), memOk \in BOOLEAN, b \in BytesOperands :
       EncodedMem(OnePtr("Memset", f, p, memOk) @@ [bytes |-> b])

EncodeMemsetPattern ==
  /\ instr = NoInstr
  /\ \E f \in Fns, p \in PtrOperands("ptr"), q \in PtrOperands("pattern"),
        b \in BytesOperands :
       EncodedMem(OnePtr("MemsetPattern", f, p, TRUE) @@ [ptr2 |-> q, bytes |-> b])

EncodeFillPoison ==
  /\ instr = NoInstr
  /\ \E f \in Fns, p \in PtrOperands("ptr") :
       EncodedMem(OnePtr("FillPoison", f, p, TRUE))

EncodeMemcpy ==
  /\ instr = NoInstr
  /\ \E f \in Fns, p \in PtrOperands("dst"), q \in PtrOperands("src"),
        b \in BytesOperands, ad \in BOOLEAN, as \in BOOLEAN :
       EncodedMem(OnePtr("Memcpy", f, p, TRUE) @@
                    [ptr2 |-> q, bytes |-> b, align_dst |-> ad, align_src |-> as])

EncodeMemcmpAccess ==
  /\ instr = NoInstr
  /\ \E f \in Fns, p \in PtrOperands("ptr1"), q \in PtrOperands("ptr2"),
        vnum \in 0..1, npnum \in BOOLEAN, deref \in BOOLEAN :
       EncodedMem(OnePtr("Memcmp", f, p, TRUE) @@
                    [ptr2 |-> q, mem1 |-> <<Bytes[2]>>, mem2 |-> <<Bytes[1]>>,
                     same |-> FALSE, vnum |-> vnum, numConst |-> FALSE,
                     unroll_cnt |-> 1, is_bcmp |-> FALSE,
                     num |-> [name |-> "num", non_poison |-> npnum],
                     deref |-> deref, result_var |-> 1, result_var_neg |-> 0])

EncodeStrlen ==
  /\ instr = NoInstr
  /\ \E f \in Fns, p \in PtrOperands("ptr"), memConst \in BOOLEAN,
        mem \in ByteSeqs(MaxMemcmpUnroll), unroll_cnt \in 1..MaxMemcmpUnroll :
       EncodedMem(OnePtr("Strlen", f, p, TRUE) @@
                    [mem |-> mem, memConst |-> memConst, unroll_cnt |-> unroll_cnt])

EncodeStartLifetime ==
  /\ instr = NoInstr
  /\ \E f \in Fns, p \in PtrOperands("ptr"), memOk \in BOOLEAN :
       EncodedMem(OnePtr("StartLifetime", f, p, memOk))

EncodeEndLifetime ==
  /\ instr = NoInstr
  /\ \E f \in Fns, p \in PtrOperands("ptr"), memOk \in BOOLEAN :
       EncodedMem(OnePtr("EndLifetime", f, p, memOk))

NextMem ==
  \/ EncodeLoad \/ EncodeStore \/ EncodeMemset \/ EncodeMemsetPattern
  \/ EncodeFillPoison \/ EncodeMemcpy \/ EncodeMemcmpAccess \/ EncodeStrlen
  \/ EncodeStartLifetime \/ EncodeEndLifetime

SpecMem == Init /\ [][NextMem]_vars

(***************************************************************************)
(* Properties of the memory-accessing instructions                         *)
(***************************************************************************)
MemKinds == {"Load", "Store", "Memset", "MemsetPattern", "FillPoison", "Memcpy",
             "Memcmp", "Strlen", "StartLifetime", "EndLifetime"}
IsMemInstr == instr.kind \in MemKinds

\* the address operands of the encoded instruction, those it reads through
\* and those it writes through
AddressOperands ==
  IF instr.kind \in {"MemsetPattern", "Memcpy", "Memcmp"}
  THEN {instr.ptr, instr.ptr2} ELSE {instr.ptr}
ReadOperands ==
  IF instr.kind \in {"Load", "Strlen"} THEN {instr.ptr}
  ELSE IF instr.kind \in {"MemsetPattern", "Memcpy"} THEN {instr.ptr2}
  ELSE IF instr.kind = "Memcmp" THEN {instr.ptr, instr.ptr2}
  ELSE {}
WriteOperands ==
  IF instr.kind \in {"Store", "Memset", "MemsetPattern", "Memcpy", "FillPoison"}
  THEN {instr.ptr} ELSE {}

\* the access through p is one the attributes of the function forbid
ReadViolates(p) ==
  \/ "NoRead" \in instr.f.attrs /\ ~isLocal(p) /\ ~isConstGlobal(p)
  \/ "ArgMemOnly" \in instr.f.attrs /\ ~isLocal(p) /\ ~ptr_only_args(p)
WriteViolates(p) ==
  \/ "NoWrite" \in instr.f.attrs /\ ~isLocal(p)
  \/ "ArgMemOnly" \in instr.f.attrs /\ ~isLocal(p) /\ ~ptr_only_args(p)

\* C11 as stated: every memory-accessing instruction is UB when an address
\* operand is poison and when an access violates the no-read, no-write or
\* arg-memory-only attribute of the function, and its encoding completes.
C11_AsStated ==
  IsMemInstr =>
    /\ (\E p \in AddressOperands : ~p.non_poison) => UBViolated
    /\ (\E p \in ReadOperands : ReadViolates(p)) => UBViolated
    /\ (\E p \in WriteOperands : WriteViolates(p)) => UBViolated
    /\ result # Aborted

\* the store of a large initializer in the initialization phase is skipped
SkippedStore == instr.kind = "Store" /\ instr.f.init /\ instr.large

\* the condition under which a poison operand p of memcpy or memcmp is UB
PoisonCounts(p) ==
  IF instr.kind = "Memcmp" THEN instr.vnum # 0
  ELSE IF instr.kind = "Memcpy"
  THEN \/ isPositiveConst(instr.bytes) \/ instr.bytes.val # 0
       \/ (IF p = instr.ptr THEN instr.align_dst ELSE instr.align_src)
  ELSE ~SkippedStore

\* the check check_can_load makes of a read, and check_can_store of a write
ReadChecked(p) ==
  IF "NoRead" \in instr.f.attrs THEN ~isLocal(p) /\ ~isConstGlobal(p)
  ELSE "ArgMemOnly" \in instr.f.attrs /\ ~isLocal(p) /\ ~ptr_only_args(p)
WriteChecked(p) ==
  /\ ~instr.f.init /\ instr.kind # "FillPoison"
  /\ IF "NoWrite" \in instr.f.attrs THEN ~isLocal(p)
     ELSE "ArgMemOnly" \in instr.f.attrs /\ ~isLocal(p) /\ ~ptr_only_args(p)

\* C11 amended: the encoding of a memory-accessing instruction always
\* completes.  A poison address operand is UB, except that the store of a
\* large initializer in the initialization phase adds nothing, memcmp/bcmp
\* make it UB only when the length is not 0, and memcpy/memmove, for an
\* operand without alignment and a length that is no positive constant, only
\* when the length is not 0.  A read is UB when the function is no-read and
\* the block is neither local nor a constant global or, the function not
\* being no-read, when it is arg-memory-only and the block is neither local
\* nor an argument's; a write outside the initialization phase is UB when
\* the function is no-write and the block is not local or, the function not
\* being no-write, when it is arg-memory-only and the block is neither local
\* nor an argument's.  fill-poison and the lifetime markers check no
\* attribute: they are UB exactly when their operand is poison or Memory
\* says so.
C11_AccessUB ==
  IsMemInstr =>
    /\ result # Aborted
    /\ \A p \in AddressOperands : (~p.non_poison /\ PoisonCounts(p)) => UBViolated
    /\ \A p \in ReadOperands : ReadChecked(p) => UBViolated
    /\ \A p \in WriteOperands : WriteChecked(p) => UBViolated
    /\ SkippedStore => ub = {}
    /\ (instr.kind \in {"FillPoison", "StartLifetime", "EndLifetime"}) =>
         (UBViolated <=> (~instr.ptr.non_poison \/ ~instr.memOk))
    /\ (/\ instr.kind = "Memcmp" /\ instr.vnum = 0 /\ instr.num.non_poison
        /\ instr.deref /\ \A p \in ReadOperands : ~ReadChecked(p))
         => ~UBViolated

\* a load through a pointer to a global block, not poison, in a no-read
\* function: the load is UB and returns what Memory loaded
C11_Witness ==
  /\ instr.kind = "Load" /\ instr.f.attrs = {"NoRead"}
  /\ instr.ptr.non_poison /\ instr.ptr.region = "global" /\ instr.memOk
  /\ UBViolated
  /\ result = instr.loaded

(***************************************************************************)
(* Assume::toSMT.  The operand is [name, value, non_poison]; for the       *)
(* alignment and the non-null kinds isAligned and isNull are what Pointer  *)
(* says of it.  expr() is the invalid expression: it has no truth value,   *)
(* and invalidHolds is the one a reading of the UB set would give it.      *)
(***************************************************************************)
AssumeKinds == {"AndNonPoison", "IfNonPoison", "WellDefined", "Align", "NonNull"}

Assume_toSMT(ins) ==
  LET v == ins.arg
      ubs ==
        CASE ins.kind2 = "AndNonPoison" ->
               {operandUB(v), instrUB("v != 0", v.value # 0)}
          [] ins.kind2 = "IfNonPoison" ->
               {instrUB("np => v != 0", v.non_poison => v.value # 0)}
          [] ins.kind2 = "WellDefined" -> {operandUB(v)}
          [] ins.kind2 = "Align" ->
               IF ins.alignIsConst
               THEN {operandUB(v), instrUB("ptr.isAligned(align)", ins.isAligned)}
               ELSE {operandUB(v), instrUB("expr()", ins.invalidHolds)}
          [] ins.kind2 = "NonNull" ->
               {operandUB(v), instrUB("!ptr.isNull()", ~ins.isNull)}
  IN MemResult(VoidValue, ubs, {}, {})

EncodeAssume ==
  /\ instr = NoInstr
  /\ \E k \in AssumeKinds, value \in 0..1, np \in BOOLEAN, c \in BOOLEAN,
        al \in BOOLEAN, null \in BOOLEAN, h \in BOOLEAN :
       LET ins == [kind |-> "Assume", kind2 |-> k,
                   arg |-> [name |-> "arg0", value |-> value, non_poison |-> np],
                   alignIsConst |-> c, isAligned |-> al, isNull |-> null,
                   invalidHolds |-> h]
           r == Assume_toSMT(ins)
       IN /\ instr' = ins
          /\ result' = r.sv
          /\ ub' = r.ub
          /\ UNCHANGED <<pre, qvars, env, data, approx>>

NextAssume == EncodeAssume

SpecAssume == Init /\ [][NextAssume]_vars

(***************************************************************************)
(* Properties of Assume::toSMT                                             *)
(***************************************************************************)
\* an alignment-assume whose alignment operand is not a constant integer
NonConstAlign ==
  instr.kind = "Assume" /\ instr.kind2 = "Align" /\ ~instr.alignIsConst

\* C12 as stated: encoding an alignment-assume whose alignment operand is not
\* a constant integer aborts the encoding at once: nothing is added to the UB
\* set and the encoding does not go past the instruction.
C12_AsStated == NonConstAlign => (ub = {} /\ result = Aborted)

(***************************************************************************)
(* FnCall::toSMT for a call with one pointer argument.  The caller is      *)
(* ins.f, the attributes of the call are ins.attrs, ins.alloc is the       *)
(* allocation family of the callee ("None" for a function that is no       *)
(* allocator); the value of an ordinary call is what State::addFnCall      *)
(* returns.                                                                *)
(***************************************************************************)
\* check: the caller has the attribute and the call has not
FnCall_check(ins, attr) == attr \in ins.f.attrs /\ attr \notin ins.attrs

\* check_implies that tests no byval flag of the pointer input
FnCall_check_implies_byval(ins, attr) ==
  IF ~FnCall_check(ins, attr) THEN {}
  ELSE IF "ArgMemOnly" \in ins.attrs
  THEN {instrUB("np => isLocal || isConstGlobal",
                ins.ptr.non_poison =>
                  (isLocal(ins.ptr) \/ isConstGlobal(ins.ptr)))}
  ELSE {instrUB("false: " \o attr, FALSE)}

FnCall_check_implies(ins, attr) ==
  IF ~FnCall_check(ins, attr) THEN {}
  ELSE IF "ArgMemOnly" \in ins.attrs
  THEN IF ins.byval THEN {}
       ELSE {instrUB("np => isLocal || isConstGlobal",
                     ins.ptr.non_poison =>
                       (isLocal(ins.ptr) \/ isConstGlobal(ins.ptr)))}
  ELSE {instrUB("false: " \o attr, FALSE)}

\* Pointer::isNull, and the block a pointer operand addresses
isNull(p) == p.region = "null"
BlockOf(p) == IF isNull(p) THEN "null" ELSE "old"

\* The memory a call of an allocation family works on: the null block, the
\* block the pointer argument addresses and the block Memory::alloc hands
\* out, each with its liveness and its contents, and the operations made on
\* the memory in the order they are made.
MemOp(op, ptr, from) == [op |-> op, ptr |-> ptr, from |-> from]
InitMemory ==
  [blocks |-> [b \in {"null", "old", "new"} |->
                 IF b = "old" THEN [alive |-> TRUE, val |-> "old bytes"]
                 ELSE [alive |-> FALSE, val |-> "no bytes"]],
   ops |-> <<>>]
\* Memory::alloc: the new block lives iff the allocation succeeded
Memory_alloc(m, allocated) ==
  [blocks |-> [m.blocks EXCEPT !["new"] = [alive |-> allocated, val |-> "uninit"]],
   ops |-> Append(m.ops, MemOp("alloc", "new", "new"))]
\* Memory::copy: the contents of the block of src become those of the block of dst
Memory_copy(m, src, dst) ==
  [blocks |-> [m.blocks EXCEPT ![dst].val = m.blocks[src].val],
   ops |-> Append(m.ops, MemOp("copy", dst, src))]
\* Memory::free: the block dies; freeing the null pointer does nothing
Memory_free(m, p) ==
  [blocks |-> IF p = "null" THEN m.blocks
              ELSE [m.blocks EXCEPT ![p].alive = FALSE],
   ops |-> Append(m.ops, MemOp("free", p, p))]
\* Memory::memset of the whole new block with zero
Memory_memset(m, p) ==
  [blocks |-> [m.blocks EXCEPT ![p].val = "zero"],
   ops |-> Append(m.ops, MemOp("memset", p, p))]

\* freeptr that forgets that realloc(ptr, 0) frees
FnCall_freeptr_onSuccess(ins) ==
  IF ins.fnName = "@reallocf" THEN BlockOf(ins.ptr)
  ELSE IF ins.allocated THEN BlockOf(ins.ptr) ELSE "null"

\* the pointer a realloc frees
FnCall_freeptr(ins) ==
  IF ins.fnName = "@reallocf" THEN BlockOf(ins.ptr)
  ELSE IF ins.size = 0 \/ ins.allocated THEN BlockOf(ins.ptr) ELSE "null"

\* the UB condition of a freeing call in a no-free function
FnCall_nofree(ins) ==
  IF "NoFree" \in ins.f.attrs
  THEN {instrUB("isNull || isLocal", isNull(ins.ptr) \/ isLocal(ins.ptr))}
  ELSE {}

\* the memory after the call
FnCall_memory(ins, m) ==
  CASE ins.alloc \in {"Alloc", "Realloc"} ->
         LET m1 == Memory_alloc(m, ins.allocated)
             m2 == IF ins.alloc = "Realloc"
                   THEN Memory_free(Memory_copy(m1, BlockOf(ins.ptr), "new"),
                                    FnCall_freeptr(ins))
                   ELSE m1
         IN IF ins.zeroed THEN Memory_memset(m2, "new") ELSE m2
    [] ins.alloc = "Free" -> Memory_free(m, BlockOf(ins.ptr))
    [] OTHER -> m

FnCall_toSMT(ins) ==
  LET args == (IF ins.poisonImpliesUB THEN {operandUB(ins.ptr)} ELSE {})
      checks ==
        FnCall_check_implies(ins, "NoRead")
          \cup FnCall_check_implies(ins, "NoWrite")
          \cup (IF \E a \in {"ArgMemOnly", "NoThrow", "WillReturn", "InaccessibleMemOnly"} :
                     FnCall_check(ins, a)
                THEN {instrUB("false: callee attribute", FALSE)} ELSE {})
          \cup (IF {"ArgMemOnly", "InaccessibleMemOnly"} \subseteq ins.attrs
                THEN {instrUB("false: both", FALSE)} ELSE {})
      approxs == IF ins.approx THEN {"Unknown libcall: " \o ins.fnName} ELSE {}
  IN CASE ins.alloc \in {"Alloc", "Realloc"} ->
            MemResult(
              [value |-> IF ins.allocated THEN "new" ELSE "null", non_poison |-> TRUE],
              args \cup checks
                \cup (IF ins.alloc = "Realloc"
                      THEN {operandUB(ins.ptr)} \cup check_can_store(ins.f, ins.ptr)
                             \cup FnCall_nofree(ins)
                      ELSE {}),
              {}, approxs)
       [] ins.alloc = "Free" ->
            MemResult(NoValue,
                      args \cup checks \cup {operandUB(ins.ptr)} \cup FnCall_nofree(ins),
                      {}, approxs)
       [] OTHER ->
            MemResult(ins.ret,
                      args \cup checks \cup FnCall_check_implies(ins, "NoFree"),
                      {}, approxs)

CallerAttrs == SUBSET {"NoRead", "NoWrite", "ArgMemOnly", "NoFree", "WillReturn"}
CallAttrs == SUBSET {"NoRead", "ArgMemOnly", "InaccessibleMemOnly", "NoFree"}

EncodeFnCall ==
  /\ instr = NoInstr
  /\ \E fa \in CallerAttrs, ca \in CallAttrs, p \in PtrOperands("arg"),
        approximated \in BOOLEAN, piu \in BOOLEAN, byval \in BOOLEAN :
       LET ins == [kind |-> "FnCall", fnName |-> "@f", approx |-> approximated,
                   f |-> [attrs |-> fa, init |-> FALSE], attrs |-> ca,
                   ptr |-> p, poisonImpliesUB |-> piu, byval |-> byval,
                   alloc |-> "None",
                   ret |-> [value |-> 1, non_poison |-> TRUE]]
           r == FnCall_toSMT(ins)
       IN /\ instr' = ins
          /\ result' = r.sv
          /\ ub' = r.ub
          /\ approx' = r.approx
          /\ UNCHANGED <<pre, qvars, env, data>>

(***************************************************************************)
(* FpBinOp over every set of approximating flags and every pair of the     *)
(* rounding mode of the instruction and the value of the rounding-mode     *)
(* register, on operands whose sum and quotient are no value of the format *)
(***************************************************************************)
\* the modes an instruction can name, and the values the register can hold:
\* the five modes and a value that is none of them
InstrModes == {"default", "dynamic", "RNE", "RNA", "RTP", "RTN", "RTZ"}
RegisterModes == {"RNE", "RNA", "RTP", "RTN", "RTZ", "other"}

EncodeFpBinOpModes ==
  /\ instr = NoInstr
  /\ \E op \in FpBinOpOps, fmath \in SUBSET ApproxFlags,
        sa \in 0..1, sb \in 0..1, mb \in {4, fpMax}, rm \in InstrModes,
        ambient \in RegisterModes :
       \E uf \in IF op = "FRem" \/ fmath # {} THEN {fpFin(0, 2), fpNaN}
                 ELSE {fpZero(0)} :
         EncodedFp([kind |-> "FpBinOp", op |-> op, fmath |-> fmath,
                    a |-> [value |-> fpFin(sa, 1), non_poison |-> TRUE],
                    b |-> [value |-> fpFin(sb, mb), non_poison |-> TRUE],
                    rm |-> rm, ambient |-> ambient,
                    den_in |-> "IEEE", den_out |-> "IEEE",
                    anyzero |-> [i \in 1..3 |-> FALSE], ndet |-> FALSE, uf |-> uf])

NextApprox ==
  \/ EncodeFnCall \/ EncodeStore \/ EncodeFpBinOpModes \/ EncodeStrlen
  \/ EncodeMemcmp

SpecApprox == Init /\ [][NextApprox]_vars

(***************************************************************************)
(* Properties of the recording of approximations                           *)
(***************************************************************************)
\* the relaxations that are recorded: each with the tag it is recorded under
RecordedRelaxations ==
  (IF instr.kind = "FnCall" /\ instr.approx
   THEN {"Unknown libcall: " \o instr.fnName} ELSE {})
    \cup (IF instr.kind = "Store" /\ instr.f.init /\ instr.large
          THEN {"Large constant initializer removed"} ELSE {})
    \cup (IF instr.kind = "FpBinOp" /\ instr.op = "FRem" THEN {"frem"} ELSE {})
    \cup (IF instr.kind = "FpBinOp"
          THEN {IF f = "ARCP" THEN "arcp" ELSE IF f = "Contract" THEN "contract"
                ELSE IF f = "Reassoc" THEN "reassoc" ELSE "afn" :
                  f \in instr.fmath \cap {"ARCP", "Contract", "Reassoc", "AFN"}}
          ELSE {})

\* a scan of memcmp, bcmp or strlen that is cut off at the unroll bound: at
\* its last unrolled step the scan would continue
ScanCutOff ==
  /\ instr.kind \in {"Memcmp", "Strlen"}
  /\ \E u \in pre : u.cond = "prefix => !continue" /\ ~u.holds

\* C13 as stated: every relaxation is recorded by doesApproximation in the
\* same encoding step: an unknown library call, a removed large initializer,
\* frem, each of the arcp/contract/reassoc/afn rewrites, and a scan of
\* memcmp/bcmp/strlen that is cut off at the unroll bound.
C13_AsStated ==
  /\ RecordedRelaxations \subseteq approx
  /\ ScanCutOff => approx # {}

\* C13 amended: an unknown library call, a removed large initializer, frem
\* and each of the arcp/contract/reassoc/afn rewrites are recorded by
\* doesApproximation in the same encoding step, and nothing else is; a scan
\* of memcmp/bcmp/strlen that is cut off at the unroll bound records no
\* approximation: it adds the precondition that the scan does not continue.
C13_Recorded ==
  /\ approx = RecordedRelaxations
  /\ ScanCutOff => approx = {}

\* a float remainder with reassociation allowed records both
C13_Witness ==
  /\ instr.kind = "FpBinOp" /\ instr.op = "FRem" /\ instr.fmath = {"Reassoc"}
  /\ approx = {"frem", "reassoc"}

(***************************************************************************)
(* Poison propagation: propagatesPoison() of an instruction kind against   *)
(* the non_poison flag its encoding computes.                              *)
(***************************************************************************)
\* the kinds that override Instr::propagatesPoison to return true
PropagatingKinds ==
  {"BinOp", "FpBinOp", "UnaryOp", "FpUnaryOp", "UnaryReductionOp", "TernaryOp",
   "FpTernaryOp", "TestOp", "ConversionOp", "FpConversionOp", "ICmp"}
propagatesPoison(kind) == kind \in PropagatingKinds

\* every operation of UnaryOp on a scalar (bswap needs whole bytes)
UnaryOpAll == UnaryOpOps \cup {"Copy", "IsConstant"}

\* encode a UnaryOp on a scalar operand in a fresh state; the operand is a
\* Constant or not, and "is.const" takes either value
EncodeUnaryOp ==
  /\ instr = NoInstr
  /\ \E op \in UnaryOpAll, a \in ScalarSVs(BITS), isConstant \in BOOLEAN,
        is_const \in 0..1 :
       LET ins == [kind |-> "UnaryOp", op |-> op, lty |-> IntType(BITS),
                   a |-> a, la |-> <<a>>, lb |-> <<>>,
                   isConstant |-> isConstant, is_const |-> is_const]
           r == UnaryOp_toSMT(ins)
       IN /\ instr' = ins
          /\ result' = r.sv
          /\ ub' = r.ub
          /\ qvars' = r.qvars
          /\ UNCHANGED <<pre, env, data, approx>>

NextPoison == EncodeUnaryOp \/ EncodeBinOp
SpecPoison == Init /\ [][NextPoison]_vars

\* a scalar instruction one of whose operands is poison
PoisonOperand ==
  \/ instr.kind = "UnaryOp" /\ ~instr.a.non_poison
  \/ instr.kind = "BinOp" /\ (~instr.a.non_poison \/ ~instr.b.non_poison)

\* C14 as stated: for every kind whose propagatesPoison() is true, the result
\* of the encoding is poison whenever any operand is poison, for every
\* opcode of the kind.
C14_AsStated ==
  (instr # NoInstr /\ propagatesPoison(instr.kind) /\ PoisonOperand)
    => ~result.non_poison

(***************************************************************************)
(* X86IntrinBinOp, shift by one variable: psrl, psra and psll on 128-bit   *)
(* vectors.  The widths are scaled by VBITS / 16: a lane of 16, 32 or 64   *)
(* bits is modelled with VBITS, 2 * VBITS or 4 * VBITS bits, and the 64    *)
(* bits of the count with 4 * VBITS bits, so that the count spans 4, 2 or  *)
(* 1 lanes of the second operand as in the real instruction.               *)
(***************************************************************************)
X86Psrl == {"x86_sse2_psrl_w", "x86_sse2_psrl_d", "x86_sse2_psrl_q"}
X86Psra == {"x86_sse2_psra_w", "x86_sse2_psra_d", "x86_avx512_psra_q_128"}
X86Psll == {"x86_sse2_psll_w", "x86_sse2_psll_d", "x86_sse2_psll_q"}
X86ShiftOps == X86Psrl \cup X86Psra \cup X86Psll

\* how many 16-bit units a lane of the intrinsic has
X86Shift_units(op) ==
  CASE op \in {"x86_sse2_psrl_w", "x86_sse2_psra_w", "x86_sse2_psll_w"} -> 1
    [] op \in {"x86_sse2_psrl_d", "x86_sse2_psra_d", "x86_sse2_psll_d"} -> 2
    [] OTHER -> 4
\* the modelled 64 bits of the count
COUNT_BITS == 4 * VBITS

RECURSIVE X86Shift_count_lane0(_, _, _)
\* the count taken from lane 0 alone
X86Shift_count_lane0(ins, i, acc) ==
  LET elem_bw == bits(getChild(ins.rty, 0))
  IN IF i = COUNT_BITS \div elem_bw THEN acc
     ELSE LET vv == extract(ins.rty, ins.b, i)
          IN X86Shift_count_lane0(ins, i + 1,
               [value |-> IF i = 0 THEN vv.value ELSE acc.value,
                non_poison |-> acc.non_poison /\ vv.non_poison])
RECURSIVE X86Shift_count(_, _, _)
\* "extract lower 64 bits from b": shift_v and shift_np after the lanes
\* i .. 64 / elem_bw - 1; lane 0 is the least significant
X86Shift_count(ins, i, acc) ==
  LET elem_bw == bits(getChild(ins.rty, 0))
  IN IF i = COUNT_BITS \div elem_bw THEN acc
     ELSE LET vv == extract(ins.rty, ins.b, i)
          IN X86Shift_count(ins, i + 1,
               [value |-> IF i = 0 THEN vv.value
                          ELSE vv.value * Pow2(i * elem_bw) + acc.value,
                non_poison |-> acc.non_poison /\ vv.non_poison])

\* fn of the shifts by one variable; shift_v has COUNT_BITS bits, a and b
\* have elem_bw bits
X86Shift_fn(op, shift_v, a, b, elem_bw) ==
  CASE op \in X86Psrl ->
         IF uge(shift_v, mkUInt(elem_bw, COUNT_BITS)) THEN mkUInt(0, elem_bw)
         ELSE lshr(a, b, elem_bw)
    [] op \in X86Psra ->
         IF uge(shift_v, mkUInt(elem_bw, COUNT_BITS))
         THEN (IF isNegative(a, elem_bw) THEN mkUInt(-1, elem_bw)
               ELSE mkUInt(0, elem_bw))
         ELSE ashr(a, b, elem_bw)
    [] op \in X86Psll ->
         IF uge(shift_v, mkUInt(elem_bw, COUNT_BITS)) THEN mkUInt(0, elem_bw)
         ELSE shl(a, b, elem_bw)

RECURSIVE X86Shift_lanes(_, _, _, _)
\* the lane loop of the shifts by one variable
X86Shift_lanes(ins, shift, i, vals) ==
  IF i = numElementsConst(ins.lty) THEN vals
  ELSE LET elem_bw == bits(getChild(ins.rty, 0))
           ai == extract(ins.lty, ins.a, i)
       IN X86Shift_lanes(ins, shift, i + 1,
            Append(vals,
                   [value |-> X86Shift_fn(ins.op, shift.value, ai.value,
                                          shift.value % Pow2(elem_bw), elem_bw),
                    non_poison |-> shift.non_poison /\ ai.non_poison]))

X86Shift_toSMT(ins) ==
  LET shift == X86Shift_count(ins, 0, [value |-> 0, non_poison |-> TRUE])
  IN [sv |-> aggregateVals(ins.lty, X86Shift_lanes(ins, shift, 0, <<>>)),
      ub |-> {}]

\* values of a lane of the first operand: both signs, and poison
ShiftLanes(w) ==
  [value : {0, 1, IntSMin(w), IntUMax(w)}, non_poison : {TRUE}]
  \cup {[value |-> 1, non_poison |-> FALSE]}
\* counts around the lane width, a count whose lane 0 is zero, and the largest
ShiftCounts(w) ==
  {0, 1, w - 1, w, w + 1, Pow2(w) % Pow2(COUNT_BITS), Pow2(COUNT_BITS) - 1}

\* encode a shift by one variable in a fresh state: the lanes of the second
\* operand below 64 bits hold count, the lanes above hold hi, and lane
\* poisoned (if any) is poison
EncodeX86Shift ==
  /\ instr = NoInstr
  /\ \E op \in X86ShiftOps :
       LET w == VBITS * X86Shift_units(op)
           k == 8 \div X86Shift_units(op)
           e == COUNT_BITS \div w
           lty == VectorType(k, IntType(w))
       IN \E x \in ShiftLanes(w), y \in ShiftLanes(w), count \in ShiftCounts(w),
             hi \in {0, IntUMax(w)}, poisoned \in {0, 1, k} :
            LET la == [i \in 1..k |-> IF i = 1 THEN x ELSE IF i = k THEN y
                                      ELSE [value |-> IntUMax(w), non_poison |-> TRUE]]
                lb == [i \in 1..k |->
                        [value |-> IF i <= e
                                   THEN (count \div Pow2(w * (i - 1))) % Pow2(w)
                                   ELSE hi,
                         non_poison |-> i # poisoned]]
                ins == [kind |-> "X86IntrinBinOp", op |-> op, lty |-> lty,
                        rty |-> lty, a |-> aggregateVals(lty, la),
                        b |-> aggregateVals(lty, lb), la |-> la, lb |-> lb,
                        count |-> count]
            IN Encoded(ins, X86Shift_toSMT(ins))

NextX86Shift == EncodeX86Shift
SpecX86Shift == Init /\ [][NextX86Shift]_vars

IsX86Shift == instr.kind = "X86IntrinBinOp" /\ instr.op \in X86ShiftOps

\* what the instruction computes for one lane of elem_bw bits and a count:
\* the lane shifted by the count, zero-filled or sign-filled
X86Shift_native(op, a, count, elem_bw) ==
  CASE op \in X86Psrl -> IF count >= elem_bw THEN 0 ELSE a \div Pow2(count)
    [] op \in X86Psll ->
         IF count >= elem_bw THEN 0 ELSE (a * Pow2(count)) % Pow2(elem_bw)
    [] op \in X86Psra ->
         IF count >= elem_bw
         THEN (IF a >= Pow2(elem_bw - 1) THEN Pow2(elem_bw) - 1 ELSE 0)
         ELSE ((a - (IF a >= Pow2(elem_bw - 1) THEN Pow2(elem_bw) ELSE 0))
                 \div Pow2(count)) % Pow2(elem_bw)

\* C15: for the x86 shifts by one variable, each result lane is 0 (psrl,
\* psll) or the sign fill (psra) when the count formed by the low 64 bits of
\* the second operand is at least the lane width, and is the lane shifted by
\* that count otherwise, as the instruction computes it.
C15_ShiftByScalar ==
  IsX86Shift =>
    \A i \in 1..Len(instr.la) :
      extract(instr.lty, result, i - 1).value
        = X86Shift_native(instr.op, instr.la[i].value, instr.count,
                          bits(getChild(instr.lty, 0)))

\* a logical right shift on 16-bit lanes whose count has a zero lane 0 and a
\* nonzero lane 1: every result lane is 0 although the lanes are not
C15_Witness ==
  /\ instr.kind = "X86IntrinBinOp" /\ instr.op = "x86_sse2_psrl_w"
  /\ instr.count = Pow2(bits(getChild(instr.lty, 0)))
  /\ instr.la[1].value = IntUMax(bits(getChild(instr.lty, 0)))
  /\ instr.la[1].non_poison
  /\ result.value = 0

(***************************************************************************)
(* The last unrolled step of LoopLikeFunctionApproximator                  *)
(***************************************************************************)
\* iteration i is evaluated: the path is viable and no iteration before it
\* is the last unrolled one or has the literal false as its continue
\* predicate or as its UB
StepReached(i) ==
  /\ i < Len(instr.steps)
  /\ i > 0 => instr.viable
  /\ \A m \in 0..(i - 1) :
       /\ ~isFalse(instr.steps[m + 1].continue)
       /\ ~isFalse(instr.steps[m + 1].ub)
       /\ (m >= instr.unroll_cnt - 1 /\ instr.unroll_cnt >= 1)
            => isConst(instr.steps[m + 1].continue)

\* the scan reaches the last unrolled step, iteration unroll_cnt - 1
ReachesLastStep ==
  IsLoop /\ instr.unroll_cnt >= 1 /\ StepReached(instr.unroll_cnt - 1)

\* the precondition "(all step UBs and all earlier continue flags) implies
\* NOT continue" of iteration i
ForcingPre(i) ==
  [cond |-> "prefix => !continue", lane |-> i,
   holds |-> ((\A m \in 0..i : instr.steps[m + 1].ub.val)
                /\ (\A m \in 0..(i - 1) : instr.steps[m + 1].continue.val))
              => ~instr.steps[i + 1].continue.val]

\* C16 as stated: when the scan reaches the last unrolled step the forcing
\* precondition is added, except when the continue predicate is not a
\* constant, in which case none is added.
C16_AsStated ==
  ReachesLastStep =>
    LET i == instr.unroll_cnt - 1
    IN IF isConst(instr.steps[i + 1].continue)
       THEN ForcingPre(i) \in pre
       ELSE pre = {}

\* C16 amended: when the scan reaches the last unrolled step and the continue
\* predicate there is not a constant, the forcing precondition of that step
\* is added and nothing else; when it is a constant no precondition is added
\* for that step and the scan goes on, and the first later step reached
\* whose continue predicate is not a constant adds its forcing precondition.
C16_ForcingPre ==
  IsLoop =>
    /\ pre = {ForcingPre(i) : i \in {j \in 0..(Len(instr.steps) - 1) :
                                       /\ StepReached(j)
                                       /\ instr.unroll_cnt >= 1
                                       /\ j >= instr.unroll_cnt - 1
                                       /\ ~isConst(instr.steps[j + 1].continue)}}
    /\ Cardinality(pre) <= 1
    /\ ReachesLastStep =>
         LET i == instr.unroll_cnt - 1
         IN IF isConst(instr.steps[i + 1].continue)
            THEN ForcingPre(i) \notin pre
            ELSE pre = {ForcingPre(i)}

\* with two unrolled steps and a scan that would continue after the second,
\* the precondition added for the second step does not hold
C16_Witness ==
  /\ ReachesLastStep
  /\ instr.unroll_cnt = 2
  /\ ~isConst(instr.steps[2].continue) /\ instr.steps[2].continue.val
  /\ pre = {ForcingPre(1)}
  /\ \E u \in pre : ~u.holds

\* C17 as stated: for every step function and every unroll count N >= 1 the
\* approximator evaluates the step function for at most N indices.
C17_AsStated ==
  (IsLoop /\ instr.unroll_cnt >= 1) => instr.evals <= instr.unroll_cnt

\* C17 amended: for every unroll count N >= 1 the approximator evaluates the
\* step function for the indices 0..N-1 at most, and for an index j >= N
\* only when the continue predicate of index j - 1 is a constant other than
\* false; with a continue predicate that is not a constant from index N - 1
\* on, it evaluates at most N indices.
C17_EvaluatedIndices ==
  (IsLoop /\ instr.unroll_cnt >= 1) =>
    /\ instr.evals >= 1
    /\ \A j \in instr.unroll_cnt..(instr.evals - 1) :
         /\ isConst(instr.steps[j].continue)
         /\ instr.steps[j].continue.val
    /\ (instr.unroll_cnt <= Len(instr.steps)
          /\ ~isConst(instr.steps[instr.unroll_cnt].continue))
         => instr.evals <= instr.unroll_cnt

\* an unroll count of one and a constant true continue predicate: the
\* second and the third index are evaluated as well
C17_Witness ==
  /\ IsLoop /\ instr.unroll_cnt = 1
  /\ instr.evals = 3
  /\ isConst(instr.steps[1].continue)

(***************************************************************************)
(* Resolution of the rounding mode                                         *)
(***************************************************************************)
NextFpModes == EncodeFpBinOpModes
SpecFpModes == Init /\ [][NextFpModes]_vars


\* the mode the operator is evaluated at for the result: RNE by default, the
\* mode the instruction names, or the mode the register selects
ResolvedMode ==
  CASE instr.rm = "default" -> "RNE"
    [] instr.rm = "dynamic" ->
         (CASE instr.ambient = "RNE" -> "RNE"
            [] instr.ambient = "RNA" -> "RNA"
            [] instr.ambient = "RTP" -> "RTP"
            [] instr.ambient = "RTN" -> "RTN"
            [] OTHER -> "RTZ")
    [] OTHER -> instr.rm

\* the modes the operator is evaluated at
EvaluatedModes ==
  IF instr.rm = "dynamic" THEN {"RNE", "RNA", "RTP", "RTN", "RTZ"}
  ELSE {ResolvedMode}

\* the value of the operator at the mode m, on the operands as they are
ValueAt(m) ==
  IF instr.op = "FRem" \/ instr.fmath \cap ApproxFlags # {} THEN instr.uf
  ELSE FpBinOp_fn(instr, instr.a.value, instr.b.value, m)

\* C18: the operator is evaluated once at RNE when the mode of the
\* instruction is the default; once at the given mode when it is fixed, the
\* result being poison unless the rounding-mode register equals that mode;
\* and at the five modes when it is dynamic, the result being the evaluation
\* that the register selects, tested in the order RNE, RNA, RTP, RTN, with
\* RTZ for every other value of the register.
C18_RoundingMode ==
  IsFpBinOp =>
    /\ result.value = ValueAt(ResolvedMode)
    /\ result.non_poison
         <=> (instr.rm \in {"default", "dynamic"} \/ instr.ambient = instr.rm)
    /\ {q[1] : q \in qvars} \subseteq EvaluatedModes
    /\ instr.op \in {"FMin", "FMax"} => {q[1] : q \in qvars} = EvaluatedModes

\* an addition in the dynamic mode with a register that holds none of the
\* five modes: the sum is rounded toward zero, which is not the sum rounded
\* to nearest
C18_Witness ==
  /\ IsFpBinOp /\ instr.op = "FAdd" /\ instr.fmath = {}
  /\ instr.rm = "dynamic" /\ instr.ambient = "other"
  /\ result.value = ValueAt("RTZ")
  /\ result.value # ValueAt("RNE")

(***************************************************************************)
(* The ledger of a function that uses two va_list expressions, p and q,    *)
(* which may or may not denote the same pointer: va_start, va_arg, va_end  *)
(* and va_copy on either.                                                  *)
(***************************************************************************)
\* the most fetches through one entry
MaxFetch == 2

\* valuations: p and q denote the same pointer or different ones; the
\* function has two variadic arguments, and a list that it did not start
\* has one
AliasEnvs ==
  {[ptr |-> pv,
    num_va_args |-> 2,
    vararg_alive |-> [v \in PtrVals |-> al],
    vararg_num_args |-> [v \in PtrVals |-> 1]] :
     pv \in [PtrKeys -> PtrVals], al \in BOOLEAN}

InitVaList ==
  /\ instr = NoInstr
  /\ result = NoValue
  /\ ub = {}
  /\ pre = {}
  /\ qvars = {}
  /\ env \in AliasEnvs
  /\ data = NoData
  /\ approx = {}

\* call void @llvm.va_start(ptr)
EncodeVaStartOn ==
  \E ptr \in PtrKeys, f \in ValidPtrFacts :
    EncodedVa([kind |-> "VaStart", ptr |-> ptr, f |-> f, isVarArgs |-> TRUE,
               before |-> NoData, ok |-> TRUE],
              data, PathOk, VaStart_toSMT(data, ptr, f, TRUE, TRUE))

\* va_arg ptr
EncodeVaArgOn ==
  /\ \A k \in DOMAIN data : data[k].next_arg < MaxFetch
  /\ \E ptr \in PtrKeys, f \in ValidPtrFacts :
       EncodedVa([kind |-> "VaArg", ptr |-> ptr, f |-> f, before |-> NoData,
                  ok |-> TRUE],
                 data, PathOk, VaArg_toSMT(data, ptr, f))

\* call void @llvm.va_end(ptr)
EncodeVaEndOn ==
  \E ptr \in PtrKeys, f \in ValidPtrFacts :
    EncodedVa([kind |-> "VaEnd", ptr |-> ptr, f |-> f, before |-> NoData,
               ok |-> TRUE],
              data, PathOk, VaEnd_toSMT(data, ptr, f))

\* call void @llvm.va_copy(dst, src)
EncodeVaCopy ==
  \E dst \in PtrKeys, src \in PtrKeys, fd \in ValidPtrFacts, fs \in ValidPtrFacts :
    EncodedVa([kind |-> "VaCopy", dst |-> dst, src |-> src, fd |-> fd, fs |-> fs,
               before |-> NoData, ok |-> TRUE],
              data, PathOk, VaCopy_toSMT(data, dst, src, fd, fs, TRUE))

NextVaList == EncodeVaStartOn \/ EncodeVaArgOn \/ EncodeVaEndOn \/ EncodeVaCopy
SpecVaList == InitVaList /\ [][NextVaList]_vars

(***************************************************************************)
(* Properties of VaStart::toSMT and of VaCopy::toSMT                       *)
(***************************************************************************)
IsVaStart == instr.kind = "VaStart"
IsVaCopy == instr.kind = "VaCopy"

\* C19: after va_start on the pointer P, every entry of the ledger whose key
\* equals P is alive, has the next-argument index 0, is marked as made by the
\* start call and has num_args equal to the symbolic value "num_va_args"; an
\* entry keyed P exists; and every entry whose key differs from P is
\* unchanged.
C19_VaStartLedger ==
  IsVaStart =>
    /\ instr.ptr \in DOMAIN data
    /\ DOMAIN data = DOMAIN instr.before \cup {instr.ptr}
    /\ \A k \in DOMAIN data :
         IF ptrEq(k, instr.ptr)
         THEN /\ data[k].alive
              /\ data[k].next_arg = 0
              /\ data[k].is_va_start
              /\ data[k].num_args = env.num_va_args
         ELSE data[k] = instr.before[k]

\* va_start on a pointer that an entry under another key, made by va_copy,
\* already tracked with one argument fetched
C19_Witness ==
  /\ IsVaStart
  /\ \E k \in DOMAIN instr.before :
       /\ k # instr.ptr /\ ptrEq(k, instr.ptr)
       /\ instr.before[k].next_arg = 1
       /\ data[k].next_arg = 0 /\ data[k].is_va_start
  /\ instr.ptr \notin DOMAIN instr.before

\* the ledger va_copy reads: the ledger before it, with the entry that
\* ensure_varargs_ptr makes for a source no entry matches
CopiedFrom == ensure_varargs_ptr(instr.before, instr.src, instr.fs.isLocal).data

\* the keys of the active entries that match the source of the copy
SourceKeys ==
  {k \in DOMAIN CopiedFrom : CopiedFrom[k].active /\ ptrEq(k, instr.src)}

\* the copy added a UB condition that is violated
CopyIsUB == \E u \in ub : ~u.holds

\* the destination carries the fields of the active entry matching the source
CopyCarries ==
  /\ instr.dst \in DOMAIN data
  /\ data[instr.dst].alive /\ data[instr.dst].active
  /\ Cardinality(SourceKeys) = 1
  /\ \A k \in SourceKeys :
       /\ data[instr.dst].next_arg = CopiedFrom[k].next_arg
       /\ data[instr.dst].num_args = CopiedFrom[k].num_args
       /\ data[instr.dst].is_va_start = CopiedFrom[k].is_va_start

\* every other entry whose key equals dst becomes inactive, and the entries
\* whose key differs from dst keep their active flag
CopyKillsAliases ==
  \A k \in DOMAIN data \ {instr.dst} :
    data[k].active = (CopiedFrom[k].active /\ ~ptrEq(k, instr.dst))

\* C20 as stated: after va_copy(dst, src) the entry keyed dst is alive and
\* active and carries next_arg, num_args and is_va_start of the active entry
\* matching src; every other entry whose key equals dst becomes inactive; the
\* source entry's alive, next_arg and num_args are unchanged; and copying
\* from a source whose active entry is not alive is UB.
C20_AsStated ==
  IsVaCopy =>
    /\ CopyCarries
    /\ CopyKillsAliases
    /\ \A k \in SourceKeys :
         /\ data[k].alive = CopiedFrom[k].alive
         /\ data[k].next_arg = CopiedFrom[k].next_arg
         /\ data[k].num_args = CopiedFrom[k].num_args
    /\ (\E k \in SourceKeys : ~CopiedFrom[k].alive) => CopyIsUB

\* C20 amended: after va_copy(dst, src) the entry keyed dst is alive and
\* active and carries next_arg, num_args and is_va_start of the one active
\* entry matching src; every other entry whose key equals dst becomes
\* inactive; the source entry's next_arg and num_args are unchanged, and so
\* is its alive flag unless the source entry is the entry keyed dst itself,
\* which is made alive; and the copy is UB exactly when the active entry
\* matching src is not alive or a check on the operands fails.
C20_VaCopyLedger ==
  IsVaCopy =>
    /\ CopyCarries
    /\ CopyKillsAliases
    /\ \A k \in SourceKeys :
         /\ data[k].next_arg = CopiedFrom[k].next_arg
         /\ data[k].num_args = CopiedFrom[k].num_args
         /\ data[k].alive = (CopiedFrom[k].alive \/ k = instr.dst)
    /\ CopyIsUB <=> \/ \E k \in SourceKeys : ~CopiedFrom[k].alive
                    \/ \E u \in ub : u.lane = 0 /\ ~u.holds

\* a copy to q from p, which denote the same pointer, after one fetch
\* through p: q carries the index 1 and the entry of p becomes inactive
C20_Witness ==
  /\ IsVaCopy /\ instr.dst = "q" /\ instr.src = "p"
  /\ ptrEq("p", "q")
  /\ "p" \in DOMAIN instr.before /\ instr.before["p"].active
  /\ instr.before["p"].next_arg = 1 /\ instr.before["p"].is_va_start
  /\ data["q"].next_arg = 1 /\ data["q"].is_va_start /\ data["q"].active
  /\ ~data["p"].active
  /\ ~CopyIsUB

(***************************************************************************)
(* Properties of VaEnd::toSMT                                              *)
(***************************************************************************)
IsVaEnd == instr.kind = "VaEnd"
IsVaOp == instr.kind \in {"VaStart", "VaArg", "VaEnd", "VaCopy"}

\* the va_list the instruction reads: the source of a copy, else the operand
UsedPtr == IF IsVaCopy THEN instr.src ELSE instr.ptr
UsedFacts == IF IsVaCopy THEN instr.fs ELSE instr.f

\* the ledger the loop of va_arg, va_end or va_copy runs over: the ledger
\* before the instruction, with the entry ensure_varargs_ptr may add
LedgerRead == ensure_varargs_ptr(instr.before, UsedPtr, UsedFacts.isLocal).data

\* the ledger tracks the va_list read, and every entry that matches it is
\* not alive
UsedIsEnded ==
  /\ \E k \in DOMAIN instr.before : ptrEq(k, UsedPtr)
  /\ \A k \in DOMAIN instr.before : ptrEq(k, UsedPtr) => ~instr.before[k].alive

\* C21: after va_end on the pointer P every entry whose key equals P is not
\* alive and the entries keyed by other pointers keep their alive flag;
\* va_arg and va_end revive no entry and va_copy only the entry keyed dst; so
\* a va_arg on P, a va_copy from P or a second va_end on P that finds every
\* entry matching P not alive is UB.
C21_VaEndLedger ==
  /\ IsVaEnd =>
       /\ DOMAIN data = DOMAIN LedgerRead
       /\ \A k \in DOMAIN data :
            /\ ptrEq(k, instr.ptr) => ~data[k].alive
            /\ ~ptrEq(k, instr.ptr) => data[k].alive = LedgerRead[k].alive
  /\ instr.kind \in {"VaArg", "VaEnd"} =>
       \A k \in DOMAIN instr.before : data[k].alive => instr.before[k].alive
  /\ IsVaCopy =>
       \A k \in DOMAIN instr.before \ {instr.dst} :
         data[k].alive = instr.before[k].alive
  /\ (instr.kind \in {"VaArg", "VaEnd", "VaCopy"} /\ UsedIsEnded) =>
       \E u \in ub : ~u.holds

\* a second va_end on q, after va_end on p ended the list that va_start made
\* under p, which denotes the same pointer
C21_Witness ==
  /\ IsVaEnd /\ instr.ptr = "q" /\ ptrEq("p", "q")
  /\ "p" \in DOMAIN instr.before
  /\ instr.before["p"].is_va_start /\ instr.before["p"].active
  /\ ~instr.before["p"].alive
  /\ \E u \in ub : u.cond = "(eq && active) => alive" /\ ~u.holds

(***************************************************************************)
(* Properties of ensure_varargs_ptr                                        *)
(***************************************************************************)
IsVaUse == instr.kind \in {"VaArg", "VaEnd", "VaCopy"}

\* the operand is itself a key of the ledger: it provably equals a key
UsedIsKey == UsedPtr \in DOMAIN instr.before
\* some key of the ledger denotes the pointer of the operand
UsedMatches == \E k \in DOMAIN instr.before : ptrEq(k, UsedPtr)

\* the entry made for a pointer that is not provably tracked
Synthesized ==
  VarArgsEntry(env.vararg_alive[env.ptr[UsedPtr]], 0,
               env.vararg_num_args[env.ptr[UsedPtr]], FALSE, ~UsedMatches)

\* the ledger the loop of the instruction leaves when it runs over d
LoopOver(d) ==
  CASE instr.kind = "VaArg" -> VaArg_loop(d, instr.ptr).data
    [] instr.kind = "VaEnd" -> VaEnd_loop(d, instr.ptr).data
    [] instr.kind = "VaCopy" -> VaCopy_loop(d, instr.dst, instr.src).data

\* the UB conditions "some key matches or the pointer is not local"
EnsureUBs == {u \in ub : u.cond = "matched || !isLocal"}

\* C22: va_end, va_copy (for its source) and va_arg on a pointer that is not
\* provably equal to a tracked key run over a ledger with a new entry whose
\* alive flag and num_args are the uninterpreted functions of the pointer,
\* with next-argument index 0 and is-start-call false, active exactly when
\* no existing key matches, and add the UB condition that some key matches
\* or the pointer is not local; on a pointer that is a key they run over
\* the ledger as it is and add no such condition.
C22_EnsureVarargsPtr ==
  IsVaUse =>
    IF UsedIsKey
    THEN /\ data = LoopOver(instr.before)
         /\ EnsureUBs = {}
    ELSE /\ data = LoopOver(assign(instr.before, UsedPtr, Synthesized))
         /\ EnsureUBs = {instrUB("matched || !isLocal",
                                  UsedMatches \/ ~UsedFacts.isLocal)}

\* va_arg on q, which no entry is keyed by but which denotes the pointer of
\* the tracked p: the entry made for q is not active, and no UB is added for
\* the local pointer
C22_Witness ==
  /\ IsVaArg /\ instr.ptr = "q" /\ ~UsedIsKey /\ UsedMatches
  /\ instr.f.isLocal
  /\ "q" \in DOMAIN data /\ ~data["q"].active /\ ~data["q"].is_va_start
  /\ data["q"].next_arg = 1
  /\ \A u \in EnsureUBs : u.holds

(***************************************************************************)
(* The active entries of the ledger                                        *)
(***************************************************************************)
\* the keys of the active entries that denote the pointer v
ActiveKeys(v) == {k \in DOMAIN data : data[k].active /\ env.ptr[k] = v}

\* C25: after any sequence of va_start, va_copy, va_end and va_arg, at most
\* one entry of the ledger is both active and keyed equal to a given pointer
\* value, and a pointer value that matches some key matches exactly one
\* active entry.
C25_OneActiveEntry ==
  IsVaOp =>
    \A v \in PtrVals :
      /\ Cardinality(ActiveKeys(v)) <= 1
      /\ (\E k \in DOMAIN data : env.ptr[k] = v) => Cardinality(ActiveKeys(v)) = 1

\* va_start on q while the ledger tracks p, which denotes the same pointer:
\* two entries match the pointer and only that of p is active
C25_Witness ==
  /\ IsVaStart /\ instr.ptr = "q" /\ ptrEq("p", "q")
  /\ DOMAIN instr.before = {"p"}
  /\ DOMAIN data = {"p", "q"}
  /\ data["p"].active /\ ~data["q"].active

(***************************************************************************)
(* The next-argument index as a counter of VARARG_BITS bits                *)
(***************************************************************************)
\* C26 as stated: the increment of the next-argument index admits no fetch
\* out of range: a va_arg through a live entry whose index before the fetch,
\* the number of fetches made so far, is not below num_args is flagged UB,
\* for every num_args in 0..255 and also after 255 fetches.
C26_AsStated ==
  (FetchOnTracked /\ FetchedEntry.alive
     /\ FetchedEntry.next_arg >= FetchedEntry.num_args) => FetchIsUB

(***************************************************************************)
(* Calls of every allocation family: an ordinary call, malloc and calloc,  *)
(* realloc and reallocf, free, with every set of attributes of the caller  *)
(* and of the call, every pointer argument, a requested size of 0 or 1 and *)
(* both outcomes of the allocation.  The memory after the call is kept in  *)
(* data.                                                                   *)
(***************************************************************************)
AllocPtrOperands ==
  PtrOperands("arg")
    \cup {[name |-> "arg", non_poison |-> np, region |-> "null"] : np \in BOOLEAN}

Family(alloc, fnName, size, allocated, zeroed) ==
  [alloc |-> alloc, fnName |-> fnName, size |-> size, allocated |-> allocated,
   zeroed |-> zeroed]
Families ==
  {Family("None", "@f", 0, FALSE, FALSE), Family("Free", "@free", 0, FALSE, FALSE)}
    \cup {Family("Alloc", "@malloc", 1, a, FALSE) : a \in BOOLEAN}
    \cup {Family("Alloc", "@calloc", 1, a, TRUE) : a \in BOOLEAN}
    \cup {Family("Realloc", n, sz, a, FALSE) :
            n \in {"@realloc", "@reallocf"}, sz \in {0, 1}, a \in BOOLEAN}

FamilyCallerAttrs == SUBSET {"NoRead", "NoWrite", "ArgMemOnly", "NoFree", "NoThrow"}
FamilyCallAttrs == SUBSET {"NoRead", "ArgMemOnly", "NoFree", "InaccessibleMemOnly"}

EncodeCall ==
  /\ instr = NoInstr
  /\ \E fa \in FamilyCallerAttrs, ca \in FamilyCallAttrs, p \in AllocPtrOperands,
        piu \in BOOLEAN, byval \in BOOLEAN, fam \in Families :
       LET ins == [kind |-> "FnCall", fnName |-> fam.fnName, approx |-> FALSE,
                   f |-> [attrs |-> fa, init |-> FALSE], attrs |-> ca,
                   ptr |-> p, poisonImpliesUB |-> piu, byval |-> byval,
                   alloc |-> fam.alloc, size |-> fam.size,
                   allocated |-> fam.allocated, zeroed |-> fam.zeroed,
                   ret |-> [value |-> 1, non_poison |-> TRUE]]
           r == FnCall_toSMT(ins)
       IN /\ instr' = ins
          /\ result' = r.sv
          /\ ub' = r.ub
          /\ approx' = r.approx
          /\ data' = FnCall_memory(ins, InitMemory)
          /\ UNCHANGED <<pre, qvars, env>>

NextFnCall == EncodeCall
SpecFnCall == Init /\ [][NextFnCall]_vars

IsCall == instr.kind = "FnCall"
\* the caller has the attribute and the call site lacks it
Lacks(attr) == attr \in instr.f.attrs /\ attr \notin instr.attrs
\* the UB conditions the attribute checks of a call add
AttributeUBs ==
  {u \in ub : u.cond \in {"false: NoRead", "false: NoWrite", "false: NoFree",
                          "false: callee attribute",
                          "np => isLocal || isConstGlobal"}}
\* the condition check_implies adds for the pointer argument of an
\* arg-memory-only call, and the condition false an attribute adds
ArgRuleUBs == {u \in ub : u.cond = "np => isLocal || isConstGlobal"}
FalseUB(attr) ==
  instrUB(IF attr = "ArgMemOnly" THEN "false: callee attribute"
          ELSE "false: " \o attr, FALSE)
\* a pointer argument the arg-memory-only rule objects to
EscapingPtrArg ==
  /\ ~instr.byval
  /\ instr.ptr.non_poison
  /\ ~isLocal(instr.ptr)
  /\ ~isConstGlobal(instr.ptr)
\* what the statement asks of a call for the attribute
AttributeRule(attr) ==
  Lacks(attr) =>
    IF attr # "ArgMemOnly" /\ "ArgMemOnly" \in instr.attrs
    THEN /\ FalseUB(attr) \notin ub
         /\ (\E u \in ArgRuleUBs : ~u.holds) <=> EscapingPtrArg
    ELSE FalseUB(attr) \in ub
\* a call that has every attribute of the caller adds none of the conditions
SatisfiedRule == (instr.f.attrs \subseteq instr.attrs) => AttributeUBs = {}

FamilyNoFreeRule ==
  /\ FalseUB("NoFree") \notin ub
  /\ (instrUB("isNull || isLocal", isNull(instr.ptr) \/ isLocal(instr.ptr)) \in ub)
       <=> (instr.alloc \in {"Realloc", "Free"} /\ "NoFree" \in instr.f.attrs)

IsRealloc == IsCall /\ instr.alloc = "Realloc"
\* the positions of the operations of a kind in the order they were made
OpsAt(op) == {i \in 1..Len(data.ops) : data.ops[i].op = op}
\* the old address is freed: Memory::free is called on it
OldFreed == \E i \in OpsAt("free") : data.ops[i].ptr = BlockOf(instr.ptr)
FreeWanted ==
  instr.fnName = "@reallocf" \/ instr.size = 0 \/ instr.allocated

\* C24: a realloc copies the contents of the old block into the new block and
\* frees afterwards, one copy and one free, so the new block holds the old
\* contents; the old address is what is freed exactly when the size is 0 or
\* the allocation succeeded, and always for @reallocf, and the null pointer
\* otherwise, the old block staying alive; in a no-free function the call adds
\* a UB condition that holds iff the old pointer is null or local.
C24_Realloc ==
  IsRealloc =>
    /\ \E i \in OpsAt("copy"), j \in OpsAt("free") :
         /\ OpsAt("copy") = {i} /\ OpsAt("free") = {j}
         /\ i < j
         /\ data.ops[i].from = BlockOf(instr.ptr)
         /\ data.ops[i].ptr = "new"
         /\ data.ops[j].ptr = IF FreeWanted THEN BlockOf(instr.ptr) ELSE "null"
    /\ data.blocks["new"].val = InitMemory.blocks[BlockOf(instr.ptr)].val
    /\ OldFreed <=> (FreeWanted \/ isNull(instr.ptr))
    /\ ~isNull(instr.ptr) => (data.blocks["old"].alive <=> ~FreeWanted)
    /\ ("NoFree" \in instr.f.attrs)
         => instrUB("isNull || isLocal", isNull(instr.ptr) \/ isLocal(instr.ptr)) \in ub
    /\ ("NoFree" \notin instr.f.attrs)
         => \A u \in ub : u.cond # "isNull || isLocal"

C24_Witness ==
  /\ IsRealloc
  /\ instr.fnName = "@realloc"
  /\ instr.size = 0
  /\ ~instr.allocated
  /\ ~isNull(instr.ptr)
  /\ ~data.blocks["old"].alive
  /\ data.blocks["new"].val = "old bytes"
  /\ "NoFree" \in instr.f.attrs
  /\ \E u \in ub : u.cond = "isNull || isLocal" /\ ~u.holds

(***************************************************************************)
(* Select and Phi.  Both pass the value they pick through fm_poison with   *)
(* the identity function, only_input = true and flush_denormal = false.    *)
(* An operand is a StateValue, a vector the sequence of its lanes.         *)
(***************************************************************************)
\* fm_poison of one operand v with the identity function: z is the value of
\* the variable any_fp_zero introduces, uf the value of the uninterpreted
\* functions of the approximating flags
fm_poison_identity(fmath, v, z, uf) ==
  LET new_a == IF "NSZ" \in fmath THEN any_fp_zero(v.value, z) ELSE v.value
  IN [sv |-> [value |-> IF fmath \cap ApproxFlags # {} THEN uf ELSE new_a,
              non_poison |-> /\ v.non_poison
                             /\ "NNaN" \in fmath => ~isNaN(v.value)
                             /\ "NInf" \in fmath => ~isInf(v.value)],
      qvars |-> IF "NSZ" \in fmath THEN {"anyzero"} ELSE {},
      approx |-> approxNames(fmath)]

\* the scalar lambda of Select::toSMT that picks by the first arm's poison
Select_scalar_firstArm(ins, a, b, c) ==
  LET sva == fm_poison_identity(ins.fmath, a, ins.z[1], ins.uf[1])
      svb == fm_poison_identity(ins.fmath, b, ins.z[2], ins.uf[2])
  IN [sv |-> [value |-> IF c.value = 1 THEN sva.sv.value ELSE svb.sv.value,
              non_poison |-> c.non_poison /\ sva.sv.non_poison],
      qvars |-> sva.qvars \cup svb.qvars,
      approx |-> sva.approx \cup svb.approx]

\* the scalar lambda of Select::toSMT
Select_scalar(ins, a, b, c) ==
  LET sva == fm_poison_identity(ins.fmath, a, ins.z[1], ins.uf[1])
      svb == fm_poison_identity(ins.fmath, b, ins.z[2], ins.uf[2])
  IN [sv |-> [value |-> IF c.value = 1 THEN sva.sv.value ELSE svb.sv.value,
              non_poison |-> c.non_poison /\ IF c.value = 1 THEN sva.sv.non_poison
                                             ELSE svb.sv.non_poison],
      qvars |-> sva.qvars \cup svb.qvars,
      approx |-> sva.approx \cup svb.approx]

\* Select::toSMT: per lane for a vector, with the condition's lane when the
\* condition is a vector and the one condition otherwise
Select_toSMT(ins) ==
  IF ins.vec
  THEN LET lane(i) == Select_scalar(ins, ins.a[i], ins.b[i],
                                    IF ins.condVec THEN ins.cond[i] ELSE ins.cond)
       IN [sv |-> [i \in 1..Len(ins.a) |-> lane(i).sv],
           qvars |-> UNION {lane(i).qvars : i \in 1..Len(ins.a)},
           approx |-> UNION {lane(i).approx : i \in 1..Len(ins.a)}]
  ELSE Select_scalar(ins, ins.a, ins.b, ins.cond)

\* the arms: a number, a zero, an infinity and NaN, poison or not
ArmSVs ==
  [value : {fpZero(0), fpFin(1, 2), fpInf(0), fpNaN}, non_poison : BOOLEAN]
ArmLaneSVs == [value : {fpFin(0, 1), fpNaN}, non_poison : BOOLEAN]
CondSVs == [value : {0, 1}, non_poison : BOOLEAN]
\* the flags of a select or phi with the values of what they introduce
SelectFMath ==
  {[fmath |-> {}, z |-> <<FALSE, FALSE>>, uf |-> <<fpZero(0), fpZero(0)>>],
   [fmath |-> {"NNaN"}, z |-> <<FALSE, FALSE>>, uf |-> <<fpZero(0), fpZero(0)>>],
   [fmath |-> {"NInf"}, z |-> <<FALSE, FALSE>>, uf |-> <<fpZero(0), fpZero(0)>>],
   [fmath |-> {"AFN"}, z |-> <<FALSE, FALSE>>, uf |-> <<fpNaN, fpZero(1)>>]}
    \cup {[fmath |-> {"NSZ"}, z |-> <<za, zb>>, uf |-> <<fpZero(0), fpZero(0)>>] :
            za \in BOOLEAN, zb \in BOOLEAN}

\* encode a select on scalar operands in a fresh state
EncodeSelect ==
  /\ instr = NoInstr
  /\ \E fm \in SelectFMath, c \in CondSVs, a \in ArmSVs, b \in ArmSVs :
       LET ins == [kind |-> "Select", name |-> "%s", fmath |-> fm.fmath,
                   z |-> fm.z, uf |-> fm.uf, vec |-> FALSE, condVec |-> FALSE,
                   cond |-> c, a |-> a, b |-> b]
       IN EncodedFpAs(ins, Select_toSMT(ins))

\* encode a select on vectors of two lanes, with one condition or one per lane
EncodeSelectVec ==
  /\ instr = NoInstr
  /\ \E fm \in {x \in SelectFMath : x.fmath \in {{}, {"NNaN"}}},
        condVec \in BOOLEAN,
        a \in [1..2 -> ArmLaneSVs], b \in [1..2 -> ArmLaneSVs] :
       \E c \in IF condVec THEN [1..2 -> CondSVs] ELSE CondSVs :
         LET ins == [kind |-> "Select", name |-> "%s", fmath |-> fm.fmath,
                     z |-> fm.z, uf |-> fm.uf, vec |-> TRUE, condVec |-> condVec,
                     cond |-> c, a |-> a, b |-> b]
         IN EncodedFpAs(ins, Select_toSMT(ins))

NextSelect == EncodeSelect \/ EncodeSelectVec
SpecSelect == Init /\ [][NextSelect]_vars

IsSelect == instr.kind = "Select"
\* the lanes of the select: one for a scalar
SelectLanes == IF instr.vec THEN 1..Len(instr.a) ELSE {1}
CondOf(i) == IF instr.vec /\ instr.condVec THEN instr.cond[i] ELSE instr.cond
ArmOf(i, first) ==
  IF instr.vec THEN (IF first THEN instr.a[i] ELSE instr.b[i])
  ELSE (IF first THEN instr.a ELSE instr.b)
ChosenArm(i) == ArmOf(i, CondOf(i).value = 1)
ResultOf(i) == IF instr.vec THEN result[i] ELSE result

\* C29: for a select without fast-math flags, per scalar or lane, the result
\* is poison exactly when the condition is poison or the arm the condition
\* chooses is poison, whatever the other arm is, and the value of the result
\* is the value of the chosen arm.
C29_SelectPoison ==
  (IsSelect /\ instr.fmath = {}) =>
    \A i \in SelectLanes :
      /\ ~ResultOf(i).non_poison
           <=> (~CondOf(i).non_poison \/ ~ChosenArm(i).non_poison)
      /\ ResultOf(i).value = ChosenArm(i).value

\* a lane whose arm that is not chosen is poison and whose result is not
C29_Witness ==
  /\ IsSelect
  /\ instr.fmath = {}
  /\ instr.vec
  /\ ~instr.condVec
  /\ \E i \in SelectLanes :
       /\ ~ArmOf(i, CondOf(i).value # 1).non_poison
       /\ ResultOf(i).non_poison
       /\ ResultOf(i).value = fpNaN

\* Phi::toSMT: ins.values are the incoming (value, block) pairs, ins.reach the
\* blocks a jump comes from, ins.from the block the jump taken comes from; the
\* value of the phi is the incoming value of that block, and the dummy value
\* when no jump is taken
Phi_incoming(ins) ==
  LET taken == {i \in 1..Len(ins.values) :
                  ins.values[i].bb \in ins.reach /\ ins.values[i].bb = ins.from}
  IN IF taken = {} THEN [value |-> fpZero(0), non_poison |-> FALSE]
     ELSE ins.values[CHOOSE i \in taken : TRUE].val

Phi_toSMT(ins) ==
  fm_poison_identity(ins.fmath, Phi_incoming(ins), ins.z[1], ins.uf[1])

(***************************************************************************)
(* dup: the duplicate of an instruction is built by the constructor from   *)
(* the arguments dup passes; what dup does not pass takes the default of   *)
(* the constructor: no fast-math flags, the default rounding mode.  The    *)
(* fields of an instruction record that stand for the state it is encoded  *)
(* in (the rounding-mode register, the values of the variables) are those  *)
(* of the original, the duplicate being encoded in the same state.         *)
(***************************************************************************)
NoFastMath == {}
DefaultRoundingMode == "default"

\* BinOp::dup passes type, name, operands, op and flags
BinOp_dup(ins, suffix) == [ins EXCEPT !.name = ins.name \o suffix]
\* FpBinOp::dup passes type, name, operands, op and fmath, and no rounding mode
FpBinOp_dup(ins, suffix) ==
  [ins EXCEPT !.name = ins.name \o suffix, !.rm = DefaultRoundingMode]
\* Select::dup passes type, name and the three operands, and no flags
Select_dup(ins, suffix) ==
  [ins EXCEPT !.name = ins.name \o suffix, !.fmath = NoFastMath]
\* Phi::dup passes type and name, and adds the incoming values, and no flags
Phi_dup(ins, suffix) ==
  [ins EXCEPT !.name = ins.name \o suffix, !.fmath = NoFastMath]

Suffixes == {"#2", "#dup"}

\* the state after ins was encoded and its duplicate d was encoded in the same
\* state: r and rd are what toSMT returned for each
Duplicated(ins, r, d, rd) ==
  /\ instr' = ins
  /\ result' = r.sv
  /\ ub' = r.ub
  /\ data' = [ins |-> d, sv |-> rd.sv, ub |-> rd.ub]
  /\ UNCHANGED <<pre, qvars, env, approx>>
NoUB(r) == [sv |-> r.sv, ub |-> {}]

DupBinOp ==
  /\ instr = NoInstr
  /\ \E op \in BinOpOps, suffix \in Suffixes :
       \E flags \in BinOpFlags(op) :
         LET lty == IntType(BITS)
             rty == IF rhsIsScalarBool(op) THEN IntType(1) ELSE lty
         IN \E a \in ScalarSVs(bits(lty)), b \in ScalarSVs(bits(rty)) :
              LET ins == [kind |-> "BinOp", name |-> "%x", op |-> op,
                          flags |-> flags, lty |-> lty, rty |-> rty,
                          a |-> a, b |-> b, la |-> <<a>>, lb |-> <<b>>]
                  d == BinOp_dup(ins, suffix)
              IN Duplicated(ins, BinOp_toSMT(ins), d, BinOp_toSMT(d))

DupFpBinOp ==
  /\ instr = NoInstr
  /\ \E op \in {"FAdd", "FMul"}, fmath \in {{}, {"NNaN"}, {"NSZ"}},
        sb \in 0..1, mb \in {4, fpMax}, rm \in InstrModes,
        ambient \in RegisterModes, suffix \in Suffixes :
       LET ins == [kind |-> "FpBinOp", name |-> "%x", op |-> op, fmath |-> fmath,
                   a |-> [value |-> fpFin(0, 1), non_poison |-> TRUE],
                   b |-> [value |-> fpFin(sb, mb), non_poison |-> TRUE],
                   rm |-> rm, ambient |-> ambient,
                   den_in |-> "IEEE", den_out |-> "IEEE",
                   anyzero |-> [i \in 1..3 |-> FALSE], ndet |-> FALSE,
                   uf |-> fpZero(0)]
           d == FpBinOp_dup(ins, suffix)
       IN Duplicated(ins, NoUB(FpBinOp_toSMT(ins)), d, NoUB(FpBinOp_toSMT(d)))

DupSelect ==
  /\ instr = NoInstr
  /\ \E fm \in SelectFMath, c \in CondSVs, a \in ArmSVs, b \in ArmSVs,
        suffix \in Suffixes :
       LET ins == [kind |-> "Select", name |-> "%x", fmath |-> fm.fmath,
                   z |-> fm.z, uf |-> fm.uf, vec |-> FALSE, condVec |-> FALSE,
                   cond |-> c, a |-> a, b |-> b]
           d == Select_dup(ins, suffix)
       IN Duplicated(ins, NoUB(Select_toSMT(ins)), d, NoUB(Select_toSMT(d)))

DupPhi ==
  /\ instr = NoInstr
  /\ \E fm \in SelectFMath, a \in ArmSVs, b \in ArmSVs,
        reach \in SUBSET {"%bb1", "%bb2"}, from \in {"%bb1", "%bb2"},
        suffix \in Suffixes :
       LET ins == [kind |-> "Phi", name |-> "%x", fmath |-> fm.fmath,
                   z |-> fm.z, uf |-> fm.uf, reach |-> reach, from |-> from,
                   values |-> <<[val |-> a, bb |-> "%bb1"], [val |-> b, bb |-> "%bb2"]>>]
           d == Phi_dup(ins, suffix)
       IN Duplicated(ins, NoUB(Phi_toSMT(ins)), d, NoUB(Phi_toSMT(d)))

NextDup == DupBinOp \/ DupFpBinOp \/ DupSelect \/ DupPhi
SpecDup == Init /\ [][NextDup]_vars

IsDuplicated == instr.kind \in {"BinOp", "FpBinOp", "Select", "Phi"}
\* the duplicate has the name of the original with a suffix
DupNamed == \E suffix \in Suffixes : data.ins.name = instr.name \o suffix
\* the duplicate has the operands and the configuration of the original
DupSameOperation ==
  \E suffix \in Suffixes : data.ins = [instr EXCEPT !.name = instr.name \o suffix]
\* the duplicate encodes to the value, the poison and the UB of the original
DupSameEncoding == data.sv = result /\ data.ub = ub

\* C27 as stated: the duplicate of a BinOp, FpBinOp, Select or Phi is named
\* name + suffix and has the operands and the configuration (flags, fast-math
\* flags, rounding mode) of the original, and encoded in the same state it
\* gives the value, the poison and the UB of the original.
C27_AsStated ==
  IsDuplicated => (DupNamed /\ DupSameOperation /\ DupSameEncoding)

(***************************************************************************)
(* Switch::toSMT.  ins.value is the StateValue of the switched value with  *)
(* a flag for undef, ins.targets the (case constant, block) pairs in       *)
(* order, ins.default_target the default block.  A jump State::addJump     *)
(* records is the pair of its condition and its block; the jumps are kept  *)
(* in data in the order they are added.                                    *)
(***************************************************************************)
\* State::getAndAddPoisonUB(value, true): neither poison nor undef
Switch_valueUB(v) ==
  {instrUB("non-poison value", v.non_poison), instrUB("not undef value", ~v.undef)}

Jump(cond, bb) == [cond |-> cond, bb |-> bb]

\* a default condition that negates the last comparison only
Switch_default_cond_last(v, targets) ==
  Len(targets) > 0 => v.value # targets[Len(targets)].val

\* default_cond: the conjunction of the negated comparisons
Switch_default_cond(v, targets) ==
  \A i \in 1..Len(targets) : ~(v.value = targets[i].val)

Switch_toSMT(ins) ==
  [sv |-> NoValue,
   ub |-> Switch_valueUB(ins.value) \cup {instrUB("false", FALSE)},
   jumps |-> [i \in 1..(Len(ins.targets) + 1) |->
                IF i <= Len(ins.targets)
                THEN Jump(ins.value.value = ins.targets[i].val, ins.targets[i].bb)
                ELSE Jump(Switch_default_cond(ins.value, ins.targets),
                          ins.default_target)]]

\* the case lists: up to two distinct constants, each with a block
CaseValues == {0, 1, 2}
CaseBlocks == {"%a", "%b"}
CaseLists ==
  {<<>>}
    \cup {<<[val |-> c, bb |-> t]>> : c \in CaseValues, t \in CaseBlocks}
    \cup {<<[val |-> cs[1], bb |-> t1], [val |-> cs[2], bb |-> t2]>> :
            cs \in {x \in CaseValues \X CaseValues : x[1] # x[2]},
            t1 \in CaseBlocks, t2 \in CaseBlocks}
SwitchValues == [value : {0, 1, 2, 3}, non_poison : BOOLEAN, undef : BOOLEAN]

EncodeSwitch ==
  /\ instr = NoInstr
  /\ \E v \in SwitchValues, targets \in CaseLists :
       LET ins == [kind |-> "Switch", value |-> v, targets |-> targets,
                   default_target |-> "%default"]
           r == Switch_toSMT(ins)
       IN /\ instr' = ins
          /\ result' = r.sv
          /\ ub' = r.ub
          /\ data' = r.jumps
          /\ UNCHANGED <<pre, qvars, env, approx>>

NextSwitch == EncodeSwitch
SpecSwitch == Init /\ [][NextSwitch]_vars

IsSwitch == instr.kind = "Switch"
NumCases == Len(instr.targets)
\* the jumps whose condition holds
JumpsTaken == {i \in 1..Len(data) : data[i].cond}
MatchesNoCase == \A i \in 1..NumCases : instr.value.value # instr.targets[i].val

\* C28: a switch adds one jump per case, in order, with the condition value ==
\* case constant and the case's block, and then one jump to the default block
\* whose condition holds exactly when no case comparison holds; a poison or
\* undef value is UB; and the UB condition false is added, which makes the
\* rest of the block unreachable.
C28_Switch ==
  IsSwitch =>
    /\ Len(data) = NumCases + 1
    /\ \A i \in 1..NumCases :
         data[i] = Jump(instr.value.value = instr.targets[i].val, instr.targets[i].bb)
    /\ data[NumCases + 1].bb = instr.default_target
    /\ data[NumCases + 1].cond <=> MatchesNoCase
    /\ data[NumCases + 1].cond <=> (JumpsTaken \cap (1..NumCases) = {})
    /\ (~instr.value.non_poison \/ instr.value.undef)
         => \E u \in ub : u.cond # "false" /\ ~u.holds
    /\ instrUB("false", FALSE) \in ub

\* a switch of two cases whose value matches the first: the default is not taken
C28_Witness ==
  /\ IsSwitch
  /\ NumCases = 2
  /\ instr.value.non_poison
  /\ ~instr.value.undef
  /\ JumpsTaken = {1}
  /\ instrUB("false", FALSE) \in ub

(***************************************************************************)
(* Poison pointers of memory operations of length 0                        *)
(***************************************************************************)
\* the encoding added a violated UB condition on the poison of operand p
PoisonFlagged(p) ==
  \E u \in ub : /\ ~u.holds
                /\ u.cond \in {operandUB(p).cond, "sv_ptr.non_poison",
                               "vbytes != 0 => " \o p.name \o ".non_poison"}
\* the operands of a memcpy that have alignment 0
UnalignedOperands ==
  (IF instr.align_dst THEN {} ELSE {instr.ptr})
    \cup (IF instr.align_src THEN {} ELSE {instr.ptr2})

\* C30: a memset whose pointer is poison is UB whatever the byte count is, 0
\* included; an operand of memcpy/memmove with alignment 0 is flagged as
\* poison exactly when it is poison and the byte count is not 0; the operands
\* of memcmp/bcmp are flagged exactly when one is poison and the count is not 0.
C30_ZeroLength ==
  /\ (instr.kind = "Memset" /\ ~instr.ptr.non_poison) => PoisonFlagged(instr.ptr)
  /\ instr.kind = "Memcpy" =>
       \A p \in UnalignedOperands :
         PoisonFlagged(p) <=> (~p.non_poison /\ instr.bytes.val # 0)
  /\ instr.kind = "Memcmp" =>
       ((\E u \in ub : u.cond = "vnum != 0 => np1 && np2" /\ ~u.holds)
          <=> (instr.vnum # 0 /\ (~instr.ptr.non_poison \/ ~instr.ptr2.non_poison)))

\* a memset of 0 bytes through a poison pointer, nothing else being wrong
C30_Witness ==
  /\ instr.kind = "Memset"
  /\ instr.bytes.val = 0
  /\ instr.bytes.non_poison
  /\ ~instr.ptr.non_poison
  /\ instr.memOk
  /\ instr.f.attrs = {}
  /\ PoisonFlagged(instr.ptr)
  /\ \A u \in ub : ~u.holds => u.cond = "sv_ptr.non_poison"
====
